---- MODULE Spec2Model ----
(***************************************************************************)
(* Model of the family knowledge-graph query engines of the Dementia-Care  *)
(* backend:                                                                *)
(*   backend/app/knowledge_graph_engine.py   KnowledgeGraphQueryEngine     *)
(*   backend/app/peswani_knowledge_graph.py  PeswaniKnowledgeGraph         *)
(*   backend/app/routers/knowledge_graph.py  KnowledgeGraphService         *)
(*   backend/app/routers/family_members.py   family-member management API  *)
(*                                                                         *)
(* Text is a sequence of one-character strings, so that lowercasing,       *)
(* substring search, regular-expression matching and the difflib ratio are *)
(* computed and not assumed.                                               *)
(***************************************************************************)
EXTENDS Integers, Sequences, FiniteSets, TLC

(***************************************************************************)
(* Text primitives (Python str and SQLite text functions)                  *)
(***************************************************************************)
UpperChars == <<"A","B","C","D","E","F","G","H","I","J","K","L","M",
                "N","O","P","Q","R","S","T","U","V","W","X","Y","Z">>
LowerChars == <<"a","b","c","d","e","f","g","h","i","j","k","l","m",
                "n","o","p","q","r","s","t","u","v","w","x","y","z">>
DigitChars == {"0","1","2","3","4","5","6","7","8","9"}

Min(S) == CHOOSE x \in S : \A y \in S : x <= y
Max(S) == CHOOSE x \in S : \A y \in S : y <= x

\* a string literal as the sequence of its characters
Chars(str) == <<>> \o [i \in 1..Len(str) |-> SubSeq(str, i, i)]

\* str.lower(), character by character
Lower(s) ==
    LET LowerChar(c) ==
            IF \E i \in 1..Len(UpperChars) : UpperChars[i] = c
            THEN LowerChars[CHOOSE i \in 1..Len(UpperChars) : UpperChars[i] = c]
            ELSE c
    IN  <<>> \o [i \in 1..Len(s) |-> LowerChar(s[i])]

\* the characters str.strip() and the regex class \s remove
IsSpace(c) == c = " "

\* str.strip()
Strip(s) ==
    LET kept == {i \in 1..Len(s) : ~IsSpace(s[i])}
    IN  IF kept = {} THEN <<>>
        ELSE LET lo == CHOOSE i \in kept : \A j \in kept : i <= j
                 hi == CHOOSE i \in kept : \A j \in kept : j <= i
             IN  SubSeq(s, lo, hi)

\* the literal lit occurs in s starting at position pos
StartsAt(s, pos, lit) ==
    /\ pos + Len(lit) - 1 <= Len(s)
    /\ \A k \in 1..Len(lit) : s[pos + k - 1] = lit[k]

\* Python `needle in s`
Contains(s, needle) == \E pos \in 1..(Len(s) + 1) : StartsAt(s, pos, needle)

\* SQLite `value LIKE '%' || needle || '%'`: LIKE ignores ASCII case
\* (the alphabet of the model holds none of the wildcards % and _)
SqlLikeContains(value, needle) == Contains(Lower(value), Lower(needle))

(***************************************************************************)
(* KnowledgeGraphQueryEngine._normalize_name                               *)
(*   name = name.lower().strip()                                           *)
(*   name = re.sub(r'\b(mr|mrs|ms|dr|prof)\.?\s*', '', name)               *)
(***************************************************************************)
\* the alternatives of the title group, in the order the regex tries them
Titles == <<Chars("mr"), Chars("mrs"), Chars("ms"), Chars("dr"), Chars("prof")>>

\* \b in front of a word character (the class \w): the previous character is
\* no word character
WordBoundaryAt(s, pos) ==
    LET IsWordChar(c) ==
            \/ \E i \in 1..Len(LowerChars) : (LowerChars[i] = c \/ UpperChars[i] = c)
            \/ c \in DigitChars
            \/ c = "_"
    IN  /\ pos <= Len(s)
        /\ IsWordChar(s[pos])
        /\ (pos = 1 \/ ~IsWordChar(s[pos - 1]))

\* the alternative the regex matches at pos (0: none). No later part of the
\* pattern can fail, so the first alternative that matches is the one taken.
TitleAt(s, pos) ==
    IF WordBoundaryAt(s, pos) /\ \E t \in 1..Len(Titles) : StartsAt(s, pos, Titles[t])
    THEN CHOOSE t \in 1..Len(Titles) :
            /\ StartsAt(s, pos, Titles[t])
            /\ \A u \in 1..(t - 1) : ~StartsAt(s, pos, Titles[u])
    ELSE 0

RECURSIVE SkipSpaces(_, _)
\* \s* : the position after the run of whitespace starting at pos
SkipSpaces(s, pos) ==
    IF pos <= Len(s) /\ IsSpace(s[pos]) THEN SkipSpaces(s, pos + 1) ELSE pos

\* the position after one match of title \.? \s* starting at pos
TitleMatchEnd(s, pos) ==
    LET afterTitle == pos + Len(Titles[TitleAt(s, pos)])
        afterDot   == IF afterTitle <= Len(s) /\ s[afterTitle] = "."
                      THEN afterTitle + 1 ELSE afterTitle
    IN  SkipSpaces(s, afterDot)

RECURSIVE SubTitles(_, _)
\* re.sub(pattern, '', s): every non-overlapping match, left to right, is removed
SubTitles(s, pos) ==
    IF pos > Len(s) THEN <<>>
    ELSE IF TitleAt(s, pos) # 0 THEN SubTitles(s, TitleMatchEnd(s, pos))
    ELSE <<s[pos]>> \o SubTitles(s, pos + 1)

_normalize_name(name) == SubTitles(Strip(Lower(name)), 1)

(***************************************************************************)
(* difflib.SequenceMatcher(None, a, b).ratio()                             *)
(* (no junk; the autojunk heuristic needs len(b) >= 200)                   *)
(***************************************************************************)
RECURSIVE CommonLen(_, _, _, _, _, _)
\* length of the common run of a[i..ahi] and b[j..bhi] starting at i and j
CommonLen(a, i, ahi, b, j, bhi) ==
    IF i <= ahi /\ j <= bhi /\ a[i] = b[j]
    THEN 1 + CommonLen(a, i + 1, ahi, b, j + 1, bhi)
    ELSE 0

\* find_longest_match: <<i, j, k>>, the longest block a[i..i+k-1] = b[j..j+k-1]
\* inside a[alo..ahi], b[blo..bhi]; of all longest blocks the one that starts
\* earliest in a and, of those, earliest in b; k = 0 when nothing matches
FindLongestMatch(a, alo, ahi, b, blo, bhi) ==
    LET k == Max({0} \cup {CommonLen(a, i, ahi, b, j, bhi) : i \in alo..ahi, j \in blo..bhi})
        i == Min({x \in alo..ahi : \E y \in blo..bhi : CommonLen(a, x, ahi, b, y, bhi) = k})
        j == Min({y \in blo..bhi : CommonLen(a, i, ahi, b, y, bhi) = k})
    IN  IF k = 0 THEN <<alo, blo, 0>> ELSE <<i, j, k>>

RECURSIVE MatchedChars(_, _, _, _, _, _)
\* get_matching_blocks: the sizes of the blocks found by splitting around the
\* longest match and recursing on both sides, summed
MatchedChars(a, alo, ahi, b, blo, bhi) ==
    LET m == FindLongestMatch(a, alo, ahi, b, blo, bhi)
    IN  IF m[3] = 0 THEN 0
        ELSE m[3]
             + MatchedChars(a, alo, m[1] - 1, b, blo, m[2] - 1)
             + MatchedChars(a, m[1] + m[3], ahi, b, m[2] + m[3], bhi)

\* ratio() as the fraction <<numerator, denominator>> = 2.0 * matches / length;
\* two empty sequences have ratio 1.0
Ratio(a, b) ==
    IF Len(a) + Len(b) = 0 THEN <<1, 1>>
    ELSE <<2 * MatchedChars(a, 1, Len(a), b, 1, Len(b)), Len(a) + Len(b)>>

\* comparison of two ratios (the floats compare as the fractions do)
RatioGt(r, q) == r[1] * q[2] > q[1] * r[2]

\* best_ratio = 0
ZeroRatio == <<0, 1>>

\* the 60% similarity threshold: ratio > 0.6
Threshold == <<6, 10>>

(***************************************************************************)
(* re.search for the constructs the pattern tables use: literals,          *)
(* (?:a|b) alternations, (?:x)? optional groups, .? and the capture groups *)
(* (.+?) and (.+). Backtracking tries the choices in the order Python's    *)
(* engine does, so the groups are those of the first match it finds.       *)
(***************************************************************************)
Lit(s)      == [t |-> "alt", a |-> <<s>>]
\* (?:s)? is greedy: s is tried before the empty string
Opt(s)      == [t |-> "alt", a |-> <<s, <<>>>>]
\* (.+?)
LazyGroup   == [t |-> "lazy", cls |-> "any", cap |-> TRUE]

NoMatch == [ok |-> FALSE, groups |-> <<>>]

RECURSIVE MatchHere(_, _, _, _)
RECURSIVE TryAlts(_, _, _, _, _)

\* a repetition x+ as element k: the lengths n >= 1 it can take for the rest
\* of the pattern to match
GroupLengths(pat, k, text, pos) ==
    LET \* the character c belongs to the class of the group
        InClass(cls, c) ==
            CASE cls = "any"      -> TRUE
              [] cls = "digit"    -> c \in DigitChars
              [] cls = "notcomma" -> c # ","
    IN  {n \in 1..(Len(text) - pos + 1) :
            /\ \A i \in pos..(pos + n - 1) : InClass(pat[k].cls, text[i])
            /\ MatchHere(pat, k + 1, text, pos + n).ok}

\* the repetition takes n characters
GroupMatch(pat, k, text, pos, n) ==
    [ok |-> TRUE,
     groups |-> (IF pat[k].cap THEN <<SubSeq(text, pos, pos + n - 1)>> ELSE <<>>)
                \o MatchHere(pat, k + 1, text, pos + n).groups]

\* elements k.. of pat match text from position pos on
MatchHere(pat, k, text, pos) ==
    IF k > Len(pat) THEN [ok |-> TRUE, groups |-> <<>>]
    ELSE LET e == pat[k]
         IN  CASE e.t = "alt"    -> TryAlts(pat, k, text, pos, 1)
               [] e.t = "lazy"   ->
                    \* the shortest length is tried first
                    LET lens == GroupLengths(pat, k, text, pos)
                    IN  IF lens = {} THEN NoMatch
                        ELSE GroupMatch(pat, k, text, pos, Min(lens))
               [] e.t = "greedy" ->
                    \* the longest length is tried first
                    LET lens == GroupLengths(pat, k, text, pos)
                    IN  IF lens = {} THEN NoMatch
                        ELSE GroupMatch(pat, k, text, pos, Max(lens))
               [] e.t = "anyopt" ->
                    LET with == IF pos <= Len(text)
                                THEN MatchHere(pat, k + 1, text, pos + 1)
                                ELSE NoMatch
                    IN  IF with.ok THEN with ELSE MatchHere(pat, k + 1, text, pos)

\* the alternatives j.. of element k, in order
TryAlts(pat, k, text, pos, j) ==
    IF j > Len(pat[k].a) THEN NoMatch
    ELSE LET r == IF StartsAt(text, pos, pat[k].a[j])
                  THEN MatchHere(pat, k + 1, text, pos + Len(pat[k].a[j]))
                  ELSE NoMatch
         IN  IF r.ok THEN r ELSE TryAlts(pat, k, text, pos, j + 1)

\* re.search(pattern, text): the leftmost match, among the start positions at
\* which the pattern matches
re_search(pat, text) ==
    LET Leftmost(starts) ==
            IF starts = {} THEN NoMatch ELSE MatchHere(pat, 1, text, Min(starts))
    IN  Leftmost({start \in 1..(Len(text) + 1) : MatchHere(pat, 1, text, start).ok})

\* KnowledgeGraphQueryEngine.query_patterns, in declared order
query_patterns ==
  LET \* (?:a|b) and (.+)
      Alt(alts)   == [t |-> "alt", a |-> alts]
      GreedyGroup == [t |-> "greedy", cls |-> "any", cap |-> TRUE]
  IN <<
    [intent |-> "daughter_name", patterns |-> <<
        \* r"what is (?:the )?name of (.+?)(?:'s|s) daughter"
        <<Lit(Chars("what is ")), Opt(Chars("the ")), Lit(Chars("name of ")), LazyGroup, Alt(<<Chars("'s"), Chars("s")>>), Lit(Chars(" daughter"))>>,
        \* r"who is (.+?)(?:'s|s) daughter"
        <<Lit(Chars("who is ")), LazyGroup, Alt(<<Chars("'s"), Chars("s")>>), Lit(Chars(" daughter"))>>,
        \* r"(.+?)(?:'s|s) daughter(?:'s)? name"
        <<LazyGroup, Alt(<<Chars("'s"), Chars("s")>>), Lit(Chars(" daughter")), Opt(Chars("'s")), Lit(Chars(" name"))>>,
        \* r"name (?:of )?(.+?)(?:'s|s) daughter"
        <<Lit(Chars("name ")), Opt(Chars("of ")), LazyGroup, Alt(<<Chars("'s"), Chars("s")>>), Lit(Chars(" daughter"))>>
    >>],
    [intent |-> "son_name", patterns |-> <<
        \* r"what is (?:the )?name of (.+?)(?:'s|s) son"
        <<Lit(Chars("what is ")), Opt(Chars("the ")), Lit(Chars("name of ")), LazyGroup, Alt(<<Chars("'s"), Chars("s")>>), Lit(Chars(" son"))>>,
        \* r"who is (.+?)(?:'s|s) son"
        <<Lit(Chars("who is ")), LazyGroup, Alt(<<Chars("'s"), Chars("s")>>), Lit(Chars(" son"))>>,
        \* r"(.+?)(?:'s|s) son(?:'s)? name"
        <<LazyGroup, Alt(<<Chars("'s"), Chars("s")>>), Lit(Chars(" son")), Opt(Chars("'s")), Lit(Chars(" name"))>>,
        \* r"name (?:of )?(.+?)(?:'s|s) son"
        <<Lit(Chars("name ")), Opt(Chars("of ")), LazyGroup, Alt(<<Chars("'s"), Chars("s")>>), Lit(Chars(" son"))>>
    >>],
    [intent |-> "birthday", patterns |-> <<
        \* r"when is (.+?)(?:'s|s) birthday"
        <<Lit(Chars("when is ")), LazyGroup, Alt(<<Chars("'s"), Chars("s")>>), Lit(Chars(" birthday"))>>,
        \* r"(.+?)(?:'s|s) birthday"
        <<LazyGroup, Alt(<<Chars("'s"), Chars("s")>>), Lit(Chars(" birthday"))>>,
        \* r"birthday of (.+)"
        <<Lit(Chars("birthday of ")), GreedyGroup>>,
        \* r"when was (.+) born"
        <<Lit(Chars("when was ")), GreedyGroup, Lit(Chars(" born"))>>
    >>],
    [intent |-> "profession", patterns |-> <<
        \* r"what does (.+?) do for work"
        <<Lit(Chars("what does ")), LazyGroup, Lit(Chars(" do for work"))>>,
        \* r"what is (.+?)(?:'s|s) job"
        <<Lit(Chars("what is ")), LazyGroup, Alt(<<Chars("'s"), Chars("s")>>), Lit(Chars(" job"))>>,
        \* r"what is (.+?)(?:'s|s) profession"
        <<Lit(Chars("what is ")), LazyGroup, Alt(<<Chars("'s"), Chars("s")>>), Lit(Chars(" profession"))>>,
        \* r"(.+?)(?:'s|s) profession"
        <<LazyGroup, Alt(<<Chars("'s"), Chars("s")>>), Lit(Chars(" profession"))>>,
        \* r"where does (.+?) work"
        <<Lit(Chars("where does ")), LazyGroup, Lit(Chars(" work"))>>
    >>],
    [intent |-> "family_members", patterns |-> <<
        \* r"who (?:are|is) (.+?)(?:'s|s) (?:children|kids|family)"
        <<Lit(Chars("who ")), Alt(<<Chars("are"), Chars("is")>>), Lit(Chars(" ")), LazyGroup, Alt(<<Chars("'s"), Chars("s")>>), Lit(Chars(" ")), Alt(<<Chars("children"), Chars("kids"), Chars("family")>>)>>,
        \* r"(?:list|tell me) (.+?)(?:'s|s) family members"
        <<Alt(<<Chars("list"), Chars("tell me")>>), Lit(Chars(" ")), LazyGroup, Alt(<<Chars("'s"), Chars("s")>>), Lit(Chars(" family members"))>>,
        \* r"(.+?)(?:'s|s) (?:sons|daughters|children)"
        <<LazyGroup, Alt(<<Chars("'s"), Chars("s")>>), Lit(Chars(" ")), Alt(<<Chars("sons"), Chars("daughters"), Chars("children")>>)>>
    >>],
    [intent |-> "relationship", patterns |-> <<
        \* r"how is (.+) related to (.+)"
        <<Lit(Chars("how is ")), GreedyGroup, Lit(Chars(" related to ")), GreedyGroup>>,
        \* r"what is the relationship between (.+) and (.+)"
        <<Lit(Chars("what is the relationship between ")), GreedyGroup, Lit(Chars(" and ")), GreedyGroup>>,
        \* r"who is (.+) to (.+)"
        <<Lit(Chars("who is ")), GreedyGroup, Lit(Chars(" to ")), GreedyGroup>>
    >>]
>>

\* PeswaniKnowledgeGraph.patterns, in declared order
peswani_patterns ==
  LET \* .?
      AnyOpt == [t |-> "anyopt"]
  IN <<
    [intent |-> "father", patterns |-> <<
        \* r"who is (?:my )?father"
        <<Lit(Chars("who is ")), Opt(Chars("my ")), Lit(Chars("father"))>>,
        \* r"tell me about (?:my )?father"
        <<Lit(Chars("tell me about ")), Opt(Chars("my ")), Lit(Chars("father"))>>,
        \* r"who is rajesh"
        <<Lit(Chars("who is rajesh"))>>,
        \* r"tell me about rajesh"
        <<Lit(Chars("tell me about rajesh"))>>,
        \* r"what does (?:my )?father do"
        <<Lit(Chars("what does ")), Opt(Chars("my ")), Lit(Chars("father do"))>>,
        \* r"father's job"
        <<Lit(Chars("father's job"))>>,
        \* r"dad"
        <<Lit(Chars("dad"))>>
    >>],
    [intent |-> "mother", patterns |-> <<
        \* r"who is (?:my )?mother"
        <<Lit(Chars("who is ")), Opt(Chars("my ")), Lit(Chars("mother"))>>,
        \* r"tell me about (?:my )?mother"
        <<Lit(Chars("tell me about ")), Opt(Chars("my ")), Lit(Chars("mother"))>>,
        \* r"who is sunita"
        <<Lit(Chars("who is sunita"))>>,
        \* r"tell me about sunita"
        <<Lit(Chars("tell me about sunita"))>>,
        \* r"what does (?:my )?mother do"
        <<Lit(Chars("what does ")), Opt(Chars("my ")), Lit(Chars("mother do"))>>,
        \* r"mother's job"
        <<Lit(Chars("mother's job"))>>,
        \* r"mom"
        <<Lit(Chars("mom"))>>
    >>],
    [intent |-> "brother", patterns |-> <<
        \* r"who is (?:my )?brother"
        <<Lit(Chars("who is ")), Opt(Chars("my ")), Lit(Chars("brother"))>>,
        \* r"tell me about (?:my )?brother"
        <<Lit(Chars("tell me about ")), Opt(Chars("my ")), Lit(Chars("brother"))>>,
        \* r"who is arjun"
        <<Lit(Chars("who is arjun"))>>,
        \* r"tell me about arjun"
        <<Lit(Chars("tell me about arjun"))>>,
        \* r"what does arjun do"
        <<Lit(Chars("what does arjun do"))>>,
        \* r"arjun's job"
        <<Lit(Chars("arjun's job"))>>,
        \* r"who is suryakant"
        <<Lit(Chars("who is suryakant"))>>,
        \* r"tell me about suryakant"
        <<Lit(Chars("tell me about suryakant"))>>,
        \* r"what does suryakant do"
        <<Lit(Chars("what does suryakant do"))>>,
        \* r"suryakant's job"
        <<Lit(Chars("suryakant's job"))>>
    >>],
    [intent |-> "arjun", patterns |-> <<
        \* r"who is arjun"
        <<Lit(Chars("who is arjun"))>>,
        \* r"tell me about arjun"
        <<Lit(Chars("tell me about arjun"))>>,
        \* r"what does arjun do"
        <<Lit(Chars("what does arjun do"))>>,
        \* r"arjun's job"
        <<Lit(Chars("arjun's job"))>>,
        \* r"arjun peswani"
        <<Lit(Chars("arjun peswani"))>>
    >>],
    [intent |-> "suryakant", patterns |-> <<
        \* r"who is suryakant"
        <<Lit(Chars("who is suryakant"))>>,
        \* r"tell me about suryakant"
        <<Lit(Chars("tell me about suryakant"))>>,
        \* r"what does suryakant do"
        <<Lit(Chars("what does suryakant do"))>>,
        \* r"suryakant's job"
        <<Lit(Chars("suryakant's job"))>>,
        \* r"suryakant kasare"
        <<Lit(Chars("suryakant kasare"))>>
    >>],
    [intent |-> "sister_in_law", patterns |-> <<
        \* r"who is kavya"
        <<Lit(Chars("who is kavya"))>>,
        \* r"tell me about kavya"
        <<Lit(Chars("tell me about kavya"))>>,
        \* r"what does kavya do"
        <<Lit(Chars("what does kavya do"))>>,
        \* r"kavya's job"
        <<Lit(Chars("kavya's job"))>>,
        \* r"who is (?:my )?sister.?in.?law"
        <<Lit(Chars("who is ")), Opt(Chars("my ")), Lit(Chars("sister")), AnyOpt, Lit(Chars("in")), AnyOpt, Lit(Chars("law"))>>
    >>],
    [intent |-> "niece", patterns |-> <<
        \* r"who is aadhya"
        <<Lit(Chars("who is aadhya"))>>,
        \* r"tell me about aadhya"
        <<Lit(Chars("tell me about aadhya"))>>,
        \* r"who is (?:my )?niece"
        <<Lit(Chars("who is ")), Opt(Chars("my ")), Lit(Chars("niece"))>>,
        \* r"tell me about (?:my )?niece"
        <<Lit(Chars("tell me about ")), Opt(Chars("my ")), Lit(Chars("niece"))>>
    >>],
    [intent |-> "family", patterns |-> <<
        \* r"tell me about (?:my )?family"
        <<Lit(Chars("tell me about ")), Opt(Chars("my ")), Lit(Chars("family"))>>,
        \* r"who are (?:my )?family members"
        <<Lit(Chars("who are ")), Opt(Chars("my ")), Lit(Chars("family members"))>>,
        \* r"how many family members"
        <<Lit(Chars("how many family members"))>>,
        \* r"list (?:my )?family"
        <<Lit(Chars("list ")), Opt(Chars("my ")), Lit(Chars("family"))>>
    >>],
    [intent |-> "location", patterns |-> <<
        \* r"who lives in pune"
        <<Lit(Chars("who lives in pune"))>>,
        \* r"who lives in mumbai"
        <<Lit(Chars("who lives in mumbai"))>>,
        \* r"who lives in nandeo"
        <<Lit(Chars("who lives in nandeo"))>>,
        \* r"where does (.+?) live"
        <<Lit(Chars("where does ")), LazyGroup, Lit(Chars(" live"))>>
    >>]
>>

(***************************************************************************)
(* KnowledgeGraphQueryEngine._parse_query                                  *)
(***************************************************************************)
RECURSIVE FirstPattern(_, _, _)
\* for pattern in patterns: match = re.search(pattern, text); if match: ...
FirstPattern(patterns, text, p) ==
    IF p > Len(patterns) THEN NoMatch
    ELSE LET m == re_search(patterns[p], text)
         IN  IF m.ok THEN m ELSE FirstPattern(patterns, text, p + 1)

RECURSIVE LastMatch(_, _, _)
\* a walk that keeps the last category one of whose patterns matches
LastMatch(table, text, c) ==
    IF c > Len(table) THEN [found |-> FALSE, intent |-> "unknown", groups |-> <<>>]
    ELSE LET m == FirstPattern(table[c].patterns, text, 1)
             later == LastMatch(table, text, c + 1)
         IN  IF later.found THEN later
             ELSE IF m.ok
             THEN [found |-> TRUE, intent |-> table[c].intent, groups |-> m.groups]
             ELSE later

RECURSIVE FirstMatch(_, _, _)
\* for intent, patterns in table.items(): the first category, in declared
\* order, one of whose patterns matches, with the groups of its first such
\* pattern
FirstMatch(table, text, c) ==
    IF c > Len(table) THEN [found |-> FALSE, intent |-> "unknown", groups |-> <<>>]
    ELSE LET m == FirstPattern(table[c].patterns, text, 1)
         IN  IF m.ok
             THEN [found |-> TRUE, intent |-> table[c].intent, groups |-> m.groups]
             ELSE FirstMatch(table, text, c + 1)

_parse_query(query) ==
    LET \* query_lower = query.lower().strip()
        Parsed(q, m) == [intent |-> m.intent, entities |-> m.groups, raw_query |-> q]
        Walk(q) == Parsed(q, FirstMatch(query_patterns, q, 1))
    IN  Walk(Strip(Lower(query)))

(***************************************************************************)
(* The store (backend/app/database.py) and the engines' state              *)
(***************************************************************************)
VARIABLES
    users,           \* table users, rows in rowid order:
                     \*   [id, full_name, user_type, date_of_birth]
    family_members,  \* table family_members, rows in rowid order:
                     \*   [id, user_id, name, relationship_type, address, notes]
    db_state,        \* "up", or "connect_fails": sqlite3.connect raises
    family_data,     \* PeswaniKnowledgeGraph.family_data, the in-memory cache
    request,         \* the last request served: [op, ...its inputs]
    response         \* what the last request returned (or raised)

vars == <<users, family_members, db_state, family_data, request, response>>

\* Python None and SQL NULL where a text may stand: a sequence no text equals,
\* as every element of a text is one character
None == <<"None">>

\* Python truthiness of a text-or-None value
Truthy(v) == v # None /\ v # <<>>

\* an exception propagating out of a call
Raise(exc) == [tag |-> "raise", exc |-> exc]
IsRaise(v) == v.tag = "raise"

(***************************************************************************)
(* KnowledgeGraphQueryEngine._find_person_by_name                          *)
(***************************************************************************)
\* {"id", "name", "type": "elder", "user_id"}
ElderPerson(u) ==
    [tag |-> "person", type |-> "elder", id |-> u.id, name |-> u.full_name,
     user_id |-> u.id, relationship |-> None, elder_name |-> None]

\* {"id", "name", "relationship", "type": "family_member", "user_id", "elder_name"}
FamilyPerson(fm, u) ==
    [tag |-> "person", type |-> "family_member", id |-> fm.id, name |-> fm.name,
     user_id |-> fm.user_id, relationship |-> fm.relationship_type,
     elder_name |-> u.full_name]

\* return None
NoPerson == [tag |-> "none"]

\* SELECT id, full_name, user_type FROM users WHERE LOWER(full_name) LIKE '%..%'
UsersLike(normalized_name) ==
    SelectSeq(users, LAMBDA u : SqlLikeContains(Lower(u.full_name), normalized_name))

\* the users row a family_members row joins to (JOIN users u ON fm.user_id = u.id)
JoinedUser(fm) == SelectSeq(users, LAMBDA u : u.id = fm.user_id)

\* SELECT fm... FROM family_members fm JOIN users u ... WHERE LOWER(fm.name) LIKE '%..%'
FamilyLike(normalized_name) ==
    SelectSeq(family_members,
              LAMBDA f : /\ JoinedUser(f) # <<>>
                         /\ SqlLikeContains(Lower(f.name), normalized_name))

\* all_names = [(id, full_name, "elder") ...] + [(id, name, "family") ...]
AllNames ==
    [i \in 1..Len(users) |->
        [id |-> users[i].id, name |-> users[i].full_name, type |-> "elder"]]
    \o [i \in 1..Len(family_members) |->
        [id |-> family_members[i].id, name |-> family_members[i].name,
         type |-> "family"]]

\* a threshold that admits the ratio 0.6 itself
ImprovesFromThreshold(ratio, best_ratio) ==
    RatioGt(ratio, best_ratio) /\ ~RatioGt(Threshold, ratio)

\* a scan that lets a later candidate of equal ratio replace the best one
ImprovesOrTies(ratio, best_ratio) ==
    ~RatioGt(best_ratio, ratio) /\ RatioGt(ratio, Threshold)

\* if ratio > best_ratio and ratio > 0.6
Improves(ratio, best_ratio) == RatioGt(ratio, best_ratio) /\ RatioGt(ratio, Threshold)

RECURSIVE ClosestMatch(_, _, _, _, _)
\* the loop over all_names: i is the next entry, best the index of best_match
\* (0: None), best_ratio its ratio
ClosestMatch(normalized_name, all, i, best, best_ratio) ==
    IF i > Len(all) THEN best
    ELSE LET ratio == Ratio(normalized_name, Lower(all[i].name))
         IN  IF Improves(ratio, best_ratio)
             THEN ClosestMatch(normalized_name, all, i + 1, i, ratio)
             ELSE ClosestMatch(normalized_name, all, i + 1, best, best_ratio)

\* the re-read of the best match by id; result[0] on a missing row is a TypeError
FuzzyPerson(best_match) ==
    IF best_match.type = "elder"
    THEN LET rows == SelectSeq(users, LAMBDA u : u.id = best_match.id)
         IN  IF rows = <<>> THEN Raise("TypeError") ELSE ElderPerson(rows[1])
    ELSE LET rows == SelectSeq(family_members,
                               LAMBDA f : f.id = best_match.id /\ JoinedUser(f) # <<>>)
         IN  IF rows = <<>> THEN Raise("TypeError")
             ELSE FamilyPerson(rows[1], JoinedUser(rows[1])[1])

\* the persons the two LIKE steps can return: fetchone() takes the first row
\* of a SELECT that has no ORDER BY, so whichever matching row the store
\* returns first
FetchoneOutcomes(name) ==
    LET Outcomes(elders, family) ==
            IF elders # <<>> THEN {ElderPerson(elders[i]) : i \in 1..Len(elders)}
            ELSE {FamilyPerson(family[i], JoinedUser(family[i])[1]) :
                     i \in 1..Len(family)}
        Search(normalized_name) ==
            Outcomes(UsersLike(normalized_name), FamilyLike(normalized_name))
    IN  Search(_normalize_name(name))

\* a resolver that tries the family members before the users
FindFamilyFirst(name) ==
    LET Found(elders, family, best) ==
            IF family # <<>> THEN FamilyPerson(family[1], JoinedUser(family[1])[1])
            ELSE IF elders # <<>> THEN ElderPerson(elders[1])
            ELSE IF best # 0 THEN FuzzyPerson(AllNames[best])
            ELSE NoPerson
        Search(normalized_name) ==
            Found(UsersLike(normalized_name), FamilyLike(normalized_name),
                  ClosestMatch(normalized_name, AllNames, 1, 0, ZeroRatio))
    IN  IF db_state # "up" THEN Raise("OperationalError")
        ELSE Search(_normalize_name(name))

\* sqlite3.connect raises when the store cannot be opened; elders is the row
\* the first SELECT fetches, family the row of the second, best the index of
\* best_match in all_names (0: None)
_find_person_by_name(name) ==
    LET Found(elders, family, best) ==
            IF elders # <<>> THEN ElderPerson(elders[1])
            ELSE IF family # <<>> THEN FamilyPerson(family[1], JoinedUser(family[1])[1])
            ELSE IF best # 0 THEN FuzzyPerson(AllNames[best])
            ELSE NoPerson
        Search(normalized_name) ==
            Found(UsersLike(normalized_name), FamilyLike(normalized_name),
                  ClosestMatch(normalized_name, AllNames, 1, 0, ZeroRatio))
    IN  IF db_state # "up" THEN Raise("OperationalError")
        ELSE Search(_normalize_name(name))

(***************************************************************************)
(* json.loads on the notes column. The parser is library code: it is       *)
(* modelled by its outcome on each notes text the model stores.            *)
(***************************************************************************)
NotesFull    == Chars("{\"birthday\": \"Oct 17\", \"profession\": \"Engineer\"}")
NotesJobOnly == Chars("{\"profession\": \"Teacher\"}")
NotesEmptyObject == Chars("{}")
NotesPlain   == Chars("Age 35, Engineer, Pune")

\* a parsed JSON object: notes.get(key) is None for a key the object lacks
JsonObject(birthday, profession, age) ==
    [tag |-> "object", birthday |-> birthday, profession |-> profession, age |-> age]

json_loads(text) ==
    CASE text = NotesFull         -> JsonObject(Chars("Oct 17"), Chars("Engineer"), None)
      [] text = NotesJobOnly      -> JsonObject(None, Chars("Teacher"), None)
      [] text = NotesEmptyObject  -> JsonObject(None, None, None)
      [] text = Chars("[]")       -> [tag |-> "list"]
      [] OTHER                    -> Raise("JSONDecodeError")

(***************************************************************************)
(* KnowledgeGraphQueryEngine._get_family_members                           *)
(***************************************************************************)
\* notes = json.loads(result[5]) if result[5] else {}; notes.get(...) raises
\* AttributeError when the JSON value is no object
ParsedNotes(notes) ==
    IF ~Truthy(notes) THEN JsonObject(None, None, None)
    ELSE LET v == json_loads(notes)
         IN  IF IsRaise(v) THEN v
             ELSE IF v.tag # "object" THEN Raise("AttributeError")
             ELSE v

\* the dict appended for one row (the contact columns phone_number and email
\* are copied through and read by no handler; the model leaves them out)
MemberDict(row) ==
    LET notes == ParsedNotes(row.notes)
    IN  [id |-> row.id, name |-> row.name, relationship |-> row.relationship_type,
         birthday |-> notes.birthday, profession |-> notes.profession,
         age |-> notes.age]

\* a SELECT whose relationship condition is LIKE '%' || ? || '%'
FamilyRowsLabelContains(user_id, relationship) ==
    SelectSeq(family_members,
              LAMBDA f : /\ f.user_id = user_id
                         /\ \/ ~Truthy(relationship)
                            \/ SqlLikeContains(f.relationship_type, relationship))

\* a SELECT that leaves out the condition on user_id
FamilyRowsOfAnyone(user_id, relationship) ==
    SelectSeq(family_members,
              LAMBDA f : \/ ~Truthy(relationship)
                         \/ Lower(f.relationship_type) = Lower(relationship))

\* WHERE user_id = ? [AND LOWER(relationship_type) = LOWER(?)]
FamilyRows(user_id, relationship) ==
    SelectSeq(family_members,
              LAMBDA f : /\ f.user_id = user_id
                         /\ \/ ~Truthy(relationship)
                            \/ Lower(f.relationship_type) = Lower(relationship))

_get_family_members(user_id, relationship) ==
    LET rows == FamilyRows(user_id, relationship)
        bad  == {i \in 1..Len(rows) : IsRaise(ParsedNotes(rows[i].notes))}
    IN  IF db_state # "up" THEN Raise("OperationalError")
        ELSE IF bad # {}
        THEN ParsedNotes(rows[CHOOSE i \in bad : \A j \in bad : i <= j].notes)
        ELSE [tag |-> "list", members |-> [i \in 1..Len(rows) |-> MemberDict(rows[i])]]

(***************************************************************************)
(* Result dicts                                                            *)
(***************************************************************************)
NullAnswer      == [kind |-> "none", text |-> <<>>, list |-> <<>>]
TextAnswer(t)   == [kind |-> "text", text |-> t, list |-> <<>>]
ListAnswer(l)   == [kind |-> "list", text |-> <<>>, list |-> l]

\* {"success": ..., "message": ...}; keys is the set of keys the dict holds
Result(success, message) ==
    [tag |-> "result", keys |-> {"success", "message"}, success |-> success,
     message |-> message,
     answer |-> [kind |-> "absent", text |-> <<>>, list |-> <<>>], details |-> <<>>,
     suggestions |-> <<>>, full_date |-> <<>>, error |-> "",
     humanized_response |-> <<>>]

WithAnswer(r, answer) ==
    [r EXCEPT !.answer = answer, !.keys = @ \cup {"answer"}]

\* details: one member dict, or the list of them
WithDetails(r, members) ==
    [r EXCEPT !.details = members, !.keys = @ \cup {"details"}]

RECURSIVE Join(_, _)
\* sep.join(texts)
Join(texts, sep) ==
    IF texts = <<>> THEN <<>>
    ELSE IF Len(texts) = 1 THEN texts[1]
    ELSE texts[1] \o sep \o Join(Tail(texts), sep)

Digits == <<"0","1","2","3","4","5","6","7","8","9">>

RECURSIVE IntText(_)
\* str(n) for n >= 0
IntText(n) == IF n < 10 THEN <<Digits[n + 1]>> ELSE IntText(n \div 10) \o <<Digits[(n % 10) + 1]>>

\* a message that does not say which name was looked for
NotFoundUnnamed(name) ==
    Chars("I couldn't find that person in the family database.")

\* f"I couldn't find anyone named '{name}' in the family database."
NotFoundMessage(name) ==
    Chars("I couldn't find anyone named '") \o name \o Chars("' in the family database.")

(***************************************************************************)
(* KnowledgeGraphQueryEngine._handle_child_query                           *)
(***************************************************************************)
\* an empty list of children reported as a failure
NoChildrenFails(person, relationship) ==
    Result(FALSE, person.name \o Chars(" doesn't have any ")
                  \o relationship \o Chars("s in the database."))

\* if not children: {"success": True, "message": ..., "answer": None}
NoChildren(person, relationship) ==
    WithAnswer(Result(TRUE, person.name \o Chars(" doesn't have any ")
                            \o relationship \o Chars("s in the database.")),
               NullAnswer)

ChildAnswer(person, relationship, children) ==
    IF children = <<>> THEN NoChildren(person, relationship)
    ELSE IF Len(children) = 1
    THEN WithDetails(
            WithAnswer(Result(TRUE, person.name \o Chars("'s ") \o relationship
                                    \o Chars(" is ") \o children[1].name \o Chars(".")),
                       TextAnswer(children[1].name)),
            children)
    ELSE LET names == [i \in 1..Len(children) |-> children[i].name]
         IN  WithDetails(
                WithAnswer(Result(TRUE, person.name \o Chars(" has ")
                                        \o IntText(Len(children)) \o Chars(" ")
                                        \o relationship \o Chars("s: ")
                                        \o Join(names, Chars(", ")) \o Chars(".")),
                           ListAnswer(names)),
                children)

_handle_child_query(parent_name, intent) ==
    LET relationship == IF intent = "daughter_name" THEN Chars("daughter") ELSE Chars("son")
        \* children = self._get_family_members(parent["user_id"], relationship)
        Children(person, children) ==
            IF IsRaise(children) THEN children
            ELSE ChildAnswer(person, relationship, children.members)
        \* parent = self._find_person_by_name(parent_name)
        Parent(person) ==
            IF IsRaise(person) THEN person
            ELSE IF person.tag = "none" THEN Result(FALSE, NotFoundMessage(parent_name))
            ELSE IF person.type # "elder"
            THEN Result(FALSE, person.name \o Chars(" is not listed as a primary family member. I can only find children of elders."))
            ELSE Children(person, _get_family_members(person.user_id, relationship))
    IN  Parent(_find_person_by_name(parent_name))

(***************************************************************************)
(* datetime.fromisoformat and strftime, for the users.date_of_birth text   *)
(* formats the model stores: "YYYY-MM-DD", optionally followed by a        *)
(* separator and "HH:MM:SS" or "HH:MM:SS.ffffff" (what the ORM writes)     *)
(***************************************************************************)
RECURSIVE Number(_)
\* int(text) for a text of digits
Number(text) ==
    LET DigitVal(c) == (CHOOSE i \in 1..10 : Digits[i] = c) - 1
    IN  IF text = <<>> THEN 0
        ELSE 10 * Number(SubSeq(text, 1, Len(text) - 1)) + DigitVal(text[Len(text)])

AllDigits(text, positions) ==
    \A i \in positions : i <= Len(text) /\ text[i] \in DigitChars

DaysInMonth(y, m) ==
    LET IsLeap == (y % 4 = 0 /\ y % 100 # 0) \/ y % 400 = 0
    IN  IF m = 2 THEN (IF IsLeap THEN 29 ELSE 28)
        ELSE IF m \in {4, 6, 9, 11} THEN 30 ELSE 31

\* "HH:MM:SS" or "HH:MM:SS.ffffff" after the one-character separator
TimePartOk(rest) ==
    /\ Len(rest) \in {9, 16}
    /\ AllDigits(rest, {2, 3, 5, 6, 8, 9})
    /\ rest[4] = ":" /\ rest[7] = ":"
    /\ Number(SubSeq(rest, 2, 3)) < 24
    /\ Number(SubSeq(rest, 5, 6)) < 60
    /\ Number(SubSeq(rest, 8, 9)) < 60
    /\ Len(rest) = 16 => (rest[10] = "." /\ AllDigits(rest, 11..16))

\* datetime.fromisoformat(text): the date, or ValueError
fromisoformat(text) ==
    LET shape == /\ Len(text) >= 10
                 /\ AllDigits(text, {1, 2, 3, 4, 6, 7, 9, 10})
                 /\ text[5] = "-" /\ text[8] = "-"
        y == Number(SubSeq(text, 1, 4))
        m == Number(SubSeq(text, 6, 7))
        d == Number(SubSeq(text, 9, 10))
    IN  IF /\ shape
           /\ y >= 1 /\ m \in 1..12 /\ d \in 1..DaysInMonth(y, m)
           /\ (Len(text) = 10 \/ TimePartOk(SubSeq(text, 11, Len(text))))
        THEN [tag |-> "date", year |-> y, month |-> m, day |-> d]
        ELSE Raise("ValueError")

\* %d and %m: two digits; %Y: the year as the C library prints it
TwoDigits(n) == IF n < 10 THEN <<"0">> \o IntText(n) ELSE IntText(n)

\* dob.strftime('%B %d')
LongDay(dob) ==
    LET MonthNames ==
            <<Chars("January"), Chars("February"), Chars("March"), Chars("April"),
              Chars("May"), Chars("June"), Chars("July"), Chars("August"),
              Chars("September"), Chars("October"), Chars("November"),
              Chars("December")>>
    IN  MonthNames[dob.month] \o Chars(" ") \o TwoDigits(dob.day)

\* dob.strftime('%B %d, %Y')
LongDate(dob) == LongDay(dob) \o Chars(", ") \o IntText(dob.year)

\* dob.strftime('%Y-%m-%d')
IsoDate(dob) ==
    IntText(dob.year) \o Chars("-") \o TwoDigits(dob.month) \o Chars("-")
    \o TwoDigits(dob.day)

(***************************************************************************)
(* KnowledgeGraphQueryEngine._handle_birthday_query                        *)
(***************************************************************************)
\* f"I don't have birthday information for {name}."
NoBirthdayMessage(name) ==
    Chars("I don't have birthday information for ") \o name \o Chars(".")

\* a loop that goes on to the last member whose name equals the person's
LastNamed(members, name) ==
    LET hits == {i \in 1..Len(members) : Lower(members[i].name) = Lower(name)}
    IN  IF hits = {} THEN 0 ELSE CHOOSE i \in hits : \A j \in hits : i >= j

\* the first member whose name equals the person's, ignoring case (0: none):
\* the loop breaks at it
FirstNamed(members, name) ==
    LET hits == {i \in 1..Len(members) : Lower(members[i].name) = Lower(name)}
    IN  IF hits = {} THEN 0 ELSE CHOOSE i \in hits : \A j \in hits : i <= j

\* the branch for an elder: SELECT date_of_birth FROM users WHERE id = ?
ElderBirthday(person) ==
    LET rows == SelectSeq(users, LAMBDA u : u.id = person.user_id)
        dob  == fromisoformat(rows[1].date_of_birth)
    IN  IF db_state # "up" THEN Raise("OperationalError")
        ELSE IF rows # <<>> /\ Truthy(rows[1].date_of_birth)
        THEN IF IsRaise(dob) THEN dob
             ELSE [WithAnswer(Result(TRUE, person.name \o Chars("'s birthday is on ")
                                           \o LongDate(dob) \o Chars(".")),
                              TextAnswer(LongDay(dob)))
                   EXCEPT !.full_date = IsoDate(dob), !.keys = @ \cup {"full_date"}]
        ELSE Result(FALSE, NoBirthdayMessage(person.name))

\* the branch for a family member: the birthday parsed from the notes
FamilyBirthday(person) ==
    LET \* family_members = self._get_family_members(person["user_id"])
        Members(family) ==
            LET i == FirstNamed(family.members, person.name)
            IN  IF IsRaise(family) THEN family
                ELSE IF i # 0 /\ Truthy(family.members[i].birthday)
                THEN WithAnswer(Result(TRUE, person.name \o Chars("'s birthday is on ")
                                             \o family.members[i].birthday \o Chars(".")),
                                TextAnswer(family.members[i].birthday))
                ELSE Result(FALSE, NoBirthdayMessage(person.name))
    IN  Members(_get_family_members(person.user_id, None))

_handle_birthday_query(person_name) ==
    LET \* person = self._find_person_by_name(person_name)
        Person(person) ==
            IF IsRaise(person) THEN person
            ELSE IF person.tag = "none" THEN Result(FALSE, NotFoundMessage(person_name))
            ELSE IF person.type = "elder" THEN ElderBirthday(person)
            ELSE FamilyBirthday(person)
    IN  Person(_find_person_by_name(person_name))

(***************************************************************************)
(* KnowledgeGraphQueryEngine._handle_profession_query                      *)
(***************************************************************************)
_handle_profession_query(person_name) ==
    LET \* f"I don't have profession information for {name}."
        NoProfessionMessage(name) ==
            Chars("I don't have profession information for ") \o name \o Chars(".")
        \* family_members = self._get_family_members(person["user_id"])
        Members(person, family) ==
            LET i == FirstNamed(family.members, person.name)
            IN  IF IsRaise(family) THEN family
                ELSE IF i # 0 /\ Truthy(family.members[i].profession)
                THEN WithAnswer(Result(TRUE, person.name \o Chars(" works as a ")
                                             \o family.members[i].profession \o Chars(".")),
                                TextAnswer(family.members[i].profession))
                ELSE Result(FALSE, NoProfessionMessage(person.name))
        \* person = self._find_person_by_name(person_name)
        Person(person) ==
            IF IsRaise(person) THEN person
            ELSE IF person.tag = "none" THEN Result(FALSE, NotFoundMessage(person_name))
            ELSE IF person.type = "family_member"
            THEN Members(person, _get_family_members(person.user_id, None))
            ELSE Result(FALSE, NoProfessionMessage(person.name))
    IN  Person(_find_person_by_name(person_name))

(***************************************************************************)
(* KnowledgeGraphQueryEngine._handle_family_members_query                  *)
(***************************************************************************)
_handle_family_members_query(person_name) ==
    LET \* f"{member['name']} ({member['relationship']})"
        MemberEntry(member) ==
            member.name \o Chars(" (") \o member.relationship \o Chars(")")
        \* family_members = self._get_family_members(person["user_id"])
        Members(person, family) ==
            LET member_list ==
                    [i \in 1..Len(family.members) |-> MemberEntry(family.members[i])]
            IN  IF IsRaise(family) THEN family
                ELSE IF family.members = <<>>
                THEN WithAnswer(Result(TRUE, person.name
                                  \o Chars(" doesn't have any family members in the database.")),
                                ListAnswer(<<>>))
                ELSE WithDetails(
                        WithAnswer(Result(TRUE, person.name
                                                \o Chars("'s family members are: ")
                                                \o Join(member_list, Chars(", "))
                                                \o Chars(".")),
                                   ListAnswer(member_list)),
                        family.members)
        \* person = self._find_person_by_name(person_name)
        Person(person) ==
            IF IsRaise(person) THEN person
            ELSE IF person.tag = "none" THEN Result(FALSE, NotFoundMessage(person_name))
            ELSE IF person.type # "elder"
            THEN Result(FALSE, Chars("I can only list family members for elders in the system."))
            ELSE Members(person, _get_family_members(person.user_id, None))
    IN  Person(_find_person_by_name(person_name))

(***************************************************************************)
(* KnowledgeGraphQueryEngine._handle_relationship_query                    *)
(***************************************************************************)
\* a check that takes any two persons to be of one family
SameFamilyAlways(p1, p2) == TRUE

\* if p1["user_id"] == p2["user_id"]
SameFamily(p1, p2) == p1.user_id = p2.user_id

\* a handler that answers only when the elder is named first
RelationshipElderFirst(person1, person2) ==
    LET NotFoundShort(name) ==
            Chars("I couldn't find anyone named '") \o name \o Chars("'.")
        Persons(p1, p2) ==
            IF IsRaise(p1) THEN p1
            ELSE IF IsRaise(p2) THEN p2
            ELSE IF p1.tag = "none" THEN Result(FALSE, NotFoundShort(person1))
            ELSE IF p2.tag = "none" THEN Result(FALSE, NotFoundShort(person2))
            ELSE IF SameFamily(p1, p2) /\ p1.type = "elder" /\ p2.type = "family_member"
            THEN WithAnswer(Result(TRUE, p2.name \o Chars(" is ") \o p1.name
                                         \o Chars("'s ") \o p2.relationship \o Chars(".")),
                            TextAnswer(p2.relationship))
            ELSE Result(FALSE, Chars("I couldn't determine the relationship between ")
                               \o person1 \o Chars(" and ") \o person2 \o Chars("."))
    IN  Persons(_find_person_by_name(person1), _find_person_by_name(person2))

_handle_relationship_query(person1, person2) ==
    LET \* f"I couldn't find anyone named '{name}'."
        NotFoundShort(name) ==
            Chars("I couldn't find anyone named '") \o name \o Chars("'.")
        \* f"{member['name']} is {elder['name']}'s {member['relationship']}."
        RelationAnswer(elder, member) ==
            WithAnswer(Result(TRUE, member.name \o Chars(" is ") \o elder.name
                                    \o Chars("'s ") \o member.relationship \o Chars(".")),
                       TextAnswer(member.relationship))
        \* p1 = self._find_person_by_name(person1); p2 = ...(person2)
        Persons(p1, p2) ==
            IF IsRaise(p1) THEN p1
            ELSE IF IsRaise(p2) THEN p2
            ELSE IF p1.tag = "none" THEN Result(FALSE, NotFoundShort(person1))
            ELSE IF p2.tag = "none" THEN Result(FALSE, NotFoundShort(person2))
            ELSE IF SameFamily(p1, p2) /\ p1.type = "elder" /\ p2.type = "family_member"
            THEN RelationAnswer(p1, p2)
            ELSE IF SameFamily(p1, p2) /\ p2.type = "elder" /\ p1.type = "family_member"
            THEN RelationAnswer(p2, p1)
            ELSE Result(FALSE, Chars("I couldn't determine the relationship between ")
                               \o person1 \o Chars(" and ") \o person2 \o Chars("."))
    IN  Persons(_find_person_by_name(person1), _find_person_by_name(person2))

(***************************************************************************)
(* KnowledgeGraphQueryEngine.query                                         *)
(***************************************************************************)
\* the dict returned for intent "unknown"
\* an unknown-intent result without the example questions
UnknownWithoutSuggestions ==
    Result(FALSE, Chars("I couldn't understand your question. Try asking about family members, birthdays, or professions."))

UnknownResult ==
    [Result(FALSE, Chars("I couldn't understand your question. Try asking about family members, birthdays, or professions."))
     EXCEPT !.suggestions = <<Chars("What is the name of Sarita's daughter?"),
                              Chars("When is Meeta's birthday?"),
                              Chars("What does Rajesh do for work?")>>,
            !.keys = @ \cup {"suggestions"}]

\* the dispatch inside the try block
Dispatch(intent, entities) ==
    CASE intent \in {"daughter_name", "son_name"} -> _handle_child_query(entities[1], intent)
      [] intent = "birthday"       -> _handle_birthday_query(entities[1])
      [] intent = "profession"     -> _handle_profession_query(entities[1])
      [] intent = "family_members" -> _handle_family_members_query(entities[1])
      [] intent = "relationship"   -> _handle_relationship_query(entities[1], entities[2])
      [] OTHER ->
            [Result(FALSE, Chars("I understand you're asking about '") \o Chars(intent)
                           \o Chars("' but I need more information."))
             EXCEPT !.keys = @ \cup {"intent"}]

\* except Exception as e: the error dict (str(e) is the library's text; the
\* model keeps the exception's class for it)
ErrorResult(raised) ==
    [Result(FALSE, Chars("Sorry, I encountered an error processing your question: ")
                   \o Chars(raised.exc))
     EXCEPT !.error = raised.exc, !.keys = @ \cup {"error"}]

\* a dispatcher with no try/except: what is raised escapes to the caller
GuardedNot(outcome) == outcome

\* try: ... except Exception
Guarded(outcome) == IF IsRaise(outcome) THEN ErrorResult(outcome) ELSE outcome

\* the body of query after parsed = self._parse_query(question)
AnswerParsed(parsed) ==
    IF parsed.intent = "unknown" THEN UnknownResult
    ELSE Guarded(Dispatch(parsed.intent, parsed.entities))

query(question) == AnswerParsed(_parse_query(question))

(***************************************************************************)
(* PeswaniKnowledgeGraph: the engine pre-scoped to one elder               *)
(***************************************************************************)
\* self.user_id = 8
PeswaniUserId == 8

RECURSIVE CacheRows(_, _)
\* the loop of _load_family_data: self.family_data[name.lower()] = {...}.
\* The cache is a dict: a row whose key is already there replaces the value
\* and keeps the key's place.
CacheRows(rows, cache) ==
    IF rows = <<>> THEN cache
    ELSE LET m == rows[1]
             entry == [key |-> Lower(m.name), name |-> m.name,
                       relationship |-> m.relationship_type,
                       address |-> m.address, notes |-> m.notes]
             at == {i \in 1..Len(cache) : cache[i].key = entry.key}
         IN  CacheRows(Tail(rows),
                       IF at = {} THEN Append(cache, entry)
                       ELSE [cache EXCEPT ![Min(at)] = entry])

\* _load_family_data: SELECT ... FROM family_members WHERE user_id = ?
\* (the contact columns phone_number and email are copied through and read by
\* no handler; the model leaves them out)
_load_family_data(rows) ==
    CacheRows(SelectSeq(rows, LAMBDA f : f.user_id = PeswaniUserId), <<>>)

\* name in self.family_data
InCache(cache, key) == \E i \in 1..Len(cache) : cache[i].key = key

\* self.family_data[name]
CacheGet(cache, key) == cache[CHOOSE i \in 1..Len(cache) : cache[i].key = key]

\* how an f-string prints a text-or-None value
Str(v) == IF v = None THEN Chars("None") ELSE v

\* r'Age (\d+)' and r'Age \d+, ([^,]+)'
AgePattern == <<Lit(Chars("Age ")), [t |-> "greedy", cls |-> "digit", cap |-> TRUE]>>
ProfessionPattern ==
    <<Lit(Chars("Age ")), [t |-> "greedy", cls |-> "digit", cap |-> FALSE],
      Lit(Chars(", ")), [t |-> "greedy", cls |-> "notcomma", cap |-> TRUE]>>

\* age_match.group(1) if age_match else "unknown"
GroupOrUnknown(pattern, notes) ==
    LET Group(m) == IF m.ok THEN m.groups[1] ELSE Chars("unknown")
    IN  Group(re_search(pattern, notes))

\* re.search(pattern, None) raises TypeError
NotesSearchable(notes) == notes # None

(***************************************************************************)
(* PeswaniKnowledgeGraph._get_person_info                                  *)
(***************************************************************************)
_get_person_info(cache, name) ==
    LET \* the response and the details, from the age and profession found
        Info(person, age, profession) ==
            WithDetails(
                WithAnswer(Result(TRUE,
                        person.name \o Chars(" is your ") \o person.relationship
                        \o Chars(". ") \o Chars("They are ") \o age
                        \o Chars(" years old and work as a ") \o profession \o Chars(". ")
                        \o Chars("They live in ") \o Str(person.address) \o Chars(".")),
                    TextAnswer(person.name)),
                <<[name |-> person.name, relationship |-> person.relationship,
                   age |-> age, profession |-> profession,
                   address |-> person.address]>>)
        \* person = self.family_data[name]
        Person(person) ==
            IF ~NotesSearchable(person.notes) THEN Raise("TypeError")
            ELSE Info(person, GroupOrUnknown(AgePattern, person.notes),
                      GroupOrUnknown(ProfessionPattern, person.notes))
        Named(key) ==
            IF ~InCache(cache, key)
            THEN WithAnswer(Result(FALSE, Chars("I don't have information about ") \o key
                                          \o Chars(" in the Peswani family.")),
                            NullAnswer)
            ELSE Person(CacheGet(cache, key))
    IN  Named(Lower(name))

(***************************************************************************)
(* PeswaniKnowledgeGraph._get_brothers_info                                *)
(***************************************************************************)
_get_brothers_info(cache) ==
    LET BrotherNames == <<Chars("arjun peswani"), Chars("suryakant kasare")>>
        \* f"{name} (age {age}, {profession}) in {location}"
        BrotherText(b) ==
            b.name \o Chars(" (age ") \o b.age \o Chars(", ") \o b.profession
            \o Chars(") in ") \o Str(b.address)
        Brother(person) ==
            [name |-> person.name, relationship |-> person.relationship,
             age |-> GroupOrUnknown(AgePattern, person.notes),
             profession |-> GroupOrUnknown(ProfessionPattern, person.notes),
             address |-> person.address]
        Text(brothers) ==
            IF Len(brothers) = 2
            THEN Chars("You have two brothers: ") \o BrotherText(brothers[1])
                 \o Chars(", and ") \o BrotherText(brothers[2]) \o Chars(".")
            ELSE IF Len(brothers) = 1
            THEN Chars("Your brother is ") \o BrotherText(brothers[1]) \o Chars(".")
            ELSE Chars("No brother information found.")
        Brothers(brothers) ==
            WithDetails(
                WithAnswer(Result(TRUE, Text(brothers)),
                           TextAnswer(IntText(Len(brothers)) \o Chars(" brothers"))),
                brothers)
        \* the brothers the cache holds, in the order of the two names
        Present(present) ==
            IF \E i \in 1..Len(present) :
                  ~NotesSearchable(CacheGet(cache, present[i]).notes)
            THEN Raise("TypeError")
            ELSE Brothers([i \in 1..Len(present) |->
                              Brother(CacheGet(cache, present[i]))])
    IN  Present(SelectSeq(BrotherNames, LAMBDA n : InCache(cache, n)))

(***************************************************************************)
(* PeswaniKnowledgeGraph._get_all_family_info                              *)
(***************************************************************************)
_get_all_family_info(cache) ==
    LET Family(family_list) ==
            WithDetails(
                WithAnswer(Result(TRUE, Chars("Your family includes: ")
                                        \o Join(family_list, Chars(", ")) \o Chars(". ")
                                        \o Chars("They are spread across Mumbai and Pune.")),
                           TextAnswer(IntText(Len(family_list)) \o Chars(" family members"))),
                <<[family_count |-> Len(family_list), members |-> family_list]>>)
    IN  IF \E i \in 1..Len(cache) : ~NotesSearchable(cache[i].notes)
        THEN Raise("TypeError")
        ELSE Family([i \in 1..Len(cache) |->
                        cache[i].name \o Chars(" (") \o cache[i].relationship
                        \o Chars(", age ") \o GroupOrUnknown(AgePattern, cache[i].notes)
                        \o Chars(")")])

(***************************************************************************)
(* PeswaniKnowledgeGraph._get_location_info                                *)
(***************************************************************************)
\* [data['name'] for data in family_data.values() if city in data['address']]:
\* `in` on an address that is None raises TypeError
LocationResponse(cache, question) ==
  LET LivingIn(c, city) ==
          LET at == SelectSeq(c, LAMBDA e : Contains(e.address, city))
          IN  [i \in 1..Len(at) |-> at[i].name]
  IN
    IF Contains(question, Chars("pune"))
    THEN Chars("In Pune, you have: ") \o Join(LivingIn(cache, Chars("Pune")), Chars(", "))
    ELSE IF Contains(question, Chars("mumbai"))
    THEN Chars("In Mumbai, you have: ") \o Join(LivingIn(cache, Chars("Mumbai")), Chars(", "))
    ELSE IF Contains(question, Chars("nandeo"))
    THEN Chars("In Nandeo, you have: ") \o Join(LivingIn(cache, Chars("Nandeo")), Chars(", "))
    ELSE Chars("Your family is spread across Mumbai (parents), Pune (Arjun's family), and Nandeo (Suryakant).")

_get_location_info(cache, question) ==
    LET Located(text) == WithAnswer(Result(TRUE, text), TextAnswer(text))
        named == \E city \in {Chars("pune"), Chars("mumbai"), Chars("nandeo")} :
                    Contains(question, city)
    IN  IF named /\ \E i \in 1..Len(cache) : cache[i].address = None
        THEN Raise("TypeError")
        ELSE Located(LocationResponse(cache, question))

(***************************************************************************)
(* PeswaniKnowledgeGraph._handle_query and PeswaniKnowledgeGraph.query     *)
(***************************************************************************)
_handle_query(cache, category, question) ==
    CASE category = "father"        -> _get_person_info(cache, Chars("rajesh peswani"))
      [] category = "mother"        -> _get_person_info(cache, Chars("sunita peswani"))
      [] category = "brother"       -> _get_brothers_info(cache)
      [] category = "arjun"         -> _get_person_info(cache, Chars("arjun peswani"))
      [] category = "suryakant"     -> _get_person_info(cache, Chars("suryakant kasare"))
      [] category = "sister_in_law" -> _get_person_info(cache, Chars("kavya peswani"))
      [] category = "niece"         -> _get_person_info(cache, Chars("aadhya peswani"))
      [] category = "family"        -> _get_all_family_info(cache)
      [] category = "location"      -> _get_location_info(cache, question)
      [] OTHER -> Result(FALSE, Chars("Query type not implemented yet"))

\* the dict returned when nothing matches
PeswaniUnknown ==
    [WithAnswer(Result(FALSE, Chars("I couldn't understand your question about the Peswani family. Try asking about family members like Rajesh, Sunita, Arjun, Kavya, or Aadhya.")),
                NullAnswer)
     EXCEPT !.suggestions = <<Chars("Who is my father?"), Chars("Tell me about Arjun"),
                              Chars("What does Kavya do?"), Chars("Who lives in Pune?"),
                              Chars("Tell me about my family")>>,
            !.keys = @ \cup {"suggestions"}]

\* the category the pattern walk dispatches on ("unknown": no pattern matches)
PeswaniCategory(question) == FirstMatch(peswani_patterns, question, 1).intent

\* the name-based search that follows when no pattern matches
NameFallback(cache, question) ==
    LET named == {i \in 1..Len(cache) : Contains(question, cache[i].key)}
    IN  IF Contains(question, Chars("suryakant"))
        THEN _get_person_info(cache, Chars("suryakant kasare"))
        ELSE IF Contains(question, Chars("arjun"))
        THEN _get_person_info(cache, Chars("arjun peswani"))
        ELSE IF named # {} THEN _get_person_info(cache, cache[Min(named)].key)
        ELSE PeswaniUnknown

peswani_query(cache, question) ==
    LET Walk(q, category) ==
            IF category # "unknown" THEN _handle_query(cache, category, q)
            ELSE NameFallback(cache, q)
        \* question_lower = question.lower().strip()
        Lowered(q) == Walk(q, PeswaniCategory(q))
    IN  Lowered(Strip(Lower(question)))

(***************************************************************************)
(* KnowledgeGraphService.process_natural_language_query and the endpoint   *)
(* process_voice_query (backend/app/routers/knowledge_graph.py)            *)
(***************************************************************************)
\* _humanize_response_with_gemini: the call to the model is inside a try
\* whose except returns kg_result["message"]; "(humanized)" stands for the
\* text the model returns when the call succeeds
\* a humanizer without the fallback: a failed call leaves no text
HumanizeWithoutFallback(kg_result, gemini) ==
    IF gemini = "ok" THEN Chars("(humanized)") ELSE <<>>

_humanize_response_with_gemini(kg_result, gemini) ==
    IF gemini = "ok" THEN Chars("(humanized)") ELSE kg_result.message

\* api_key: whether GEMINI_API_KEY is set; gemini: how the model call ends
\* the body of process_natural_language_query after
\* kg_result = self.peswani_kg.query(query)
Humanized(kg_result, api_key, gemini) ==
    LET \* kg_result["humanized_response"] = ...
        WithHumanized(r, text) ==
            [r EXCEPT !.humanized_response = text,
                      !.keys = @ \cup {"humanized_response"}]
    IN  IF IsRaise(kg_result) THEN kg_result
        ELSE IF ~kg_result.success THEN kg_result
        ELSE IF api_key
        THEN WithHumanized(kg_result, _humanize_response_with_gemini(kg_result, gemini))
        ELSE WithHumanized(kg_result, kg_result.message)

process_natural_language_query(cache, question, api_key, gemini) ==
    Humanized(peswani_query(cache, question), api_key, gemini)

\* an HTTP response: the body of a 200, or the detail of an HTTPException
Http(status, body) == [tag |-> "http", status |-> status, body |-> body]

\* the end of process_voice_query, after
\* result = kg_service.process_natural_language_query(request.query)
VoiceResponse(result) ==
    IF IsRaise(result) THEN Http(500, result) ELSE Http(200, result)

\* process_voice_query: the HTTPException(400) for a blank query is raised
\* inside the try block, whose `except Exception` turns whatever is raised
\* there into an HTTPException(500)
process_voice_query(cache, question, api_key, gemini) ==
    IF Strip(question) = <<>> THEN Http(500, Raise("HTTPException(400)"))
    ELSE VoiceResponse(process_natural_language_query(cache, question, api_key, gemini))

(***************************************************************************)
(* The served system: the family-member management API                     *)
(* (backend/app/routers/family_members.py), the generic engine's query     *)
(* and the voice endpoint, over one store                                  *)
(***************************************************************************)
\* bounds of the exploration
MaxMembers == 2
MaxId == 2

Row(id, user_id, name, relationship_type, address, notes) ==
    [id |-> id, user_id |-> user_id, name |-> name,
     relationship_type |-> relationship_type, address |-> address, notes |-> notes]

UserRow(id, full_name, user_type, date_of_birth) ==
    [id |-> id, full_name |-> full_name, user_type |-> user_type,
     date_of_birth |-> date_of_birth]

\* the users the store holds: an elder of the seeded family and the elder the
\* Peswani engine is scoped to
SeedUsers ==
    <<UserRow(1, Chars("Sarita Sharma"), "elder", Chars("1945-03-15")),
      UserRow(PeswaniUserId, Chars("Priyanshi Peswani"), "elder", None)>>

NotesRajesh == Chars("Age 58, Banker, Mumbai")

\* FamilyMemberCreate payloads with the user_id they are posted for
CreatePool ==
    {[user_id |-> PeswaniUserId, name |-> Chars("Rajesh Peswani"),
      relationship_type |-> Chars("father"), address |-> Chars("Mumbai"),
      notes |-> NotesRajesh],
     [user_id |-> PeswaniUserId, name |-> Chars("Arjun Peswani"),
      relationship_type |-> Chars("brother"), address |-> Chars("Pune"),
      notes |-> NotesPlain],
     [user_id |-> 1, name |-> Chars("Meeta Sharma"),
      relationship_type |-> Chars("daughter"), address |-> None,
      notes |-> NotesFull],
     [user_id |-> 5, name |-> Chars("Meeta Sharma"),
      relationship_type |-> Chars("daughter"), address |-> None,
      notes |-> NotesFull]}

\* current_user.user_type
Roles == {"caregiver", "elder"}

\* the id the store gives a new row: max(rowid) + 1
NewId(rows) == IF rows = <<>> THEN 1 ELSE Max({rows[i].id : i \in 1..Len(rows)}) + 1

Idle == [op |-> "idle"]
NoResponse == [tag |-> "none"]

\* the service object is constructed when the router module is imported:
\* the Peswani engine loads its cache from the store as it is then
Init ==
    /\ users = SeedUsers
    /\ family_members \in
          {<<>>,
           <<Row(1, PeswaniUserId, Chars("Rajesh Peswani"), Chars("father"),
                 Chars("Mumbai"), NotesRajesh)>>}
    /\ db_state = "up"
    /\ family_data = _load_family_data(family_members)
    /\ request = Idle
    /\ response = NoResponse

\* db.query(FamilyMember).filter(FamilyMember.id == family_member_id).first()
MemberAt(id) == {i \in 1..Len(family_members) : family_members[i].id = id}

\* create_family_member
CreateFamilyMember(payload, role) ==
    /\ request = Idle
    /\ db_state = "up"
    /\ Len(family_members) < MaxMembers
    /\ NewId(family_members) <= MaxId
    /\ request' = [op |-> "create_family_member", payload |-> payload, role |-> role]
    /\ IF role # "caregiver"
       THEN /\ response' = Http(403, NoResponse)
            /\ UNCHANGED family_members
       ELSE IF \A i \in 1..Len(users) : users[i].id # payload.user_id
       THEN /\ response' = Http(404, NoResponse)
            /\ UNCHANGED family_members
       ELSE LET row == Row(NewId(family_members), payload.user_id, payload.name,
                           payload.relationship_type, payload.address, payload.notes)
            IN  /\ family_members' = Append(family_members, row)
                /\ response' = Http(200, row)
    /\ UNCHANGED <<users, db_state, family_data>>

\* update_family_member
UpdateFamilyMember(id, update, role) ==
    /\ request = Idle
    /\ db_state = "up"
    /\ request' = [op |-> "update_family_member", id |-> id, update |-> update,
                   role |-> role]
    /\ IF MemberAt(id) = {}
       THEN /\ response' = Http(404, NoResponse)
            /\ UNCHANGED family_members
       ELSE IF role # "caregiver"
       THEN /\ response' = Http(403, NoResponse)
            /\ UNCHANGED family_members
       ELSE LET i == Min(MemberAt(id))
                \* for field, value in update_data.items(): setattr(...)
                row == [family_members[i] EXCEPT
                          !.name = IF "name" \in update.set THEN update.name ELSE @,
                          !.notes = IF "notes" \in update.set THEN update.notes ELSE @]
            IN  /\ family_members' = [family_members EXCEPT ![i] = row]
                /\ response' = Http(200, row)
    /\ UNCHANGED <<users, db_state, family_data>>

\* delete_family_member
DeleteFamilyMember(id, role) ==
    /\ request = Idle
    /\ db_state = "up"
    /\ request' = [op |-> "delete_family_member", id |-> id, role |-> role]
    /\ IF MemberAt(id) = {}
       THEN /\ response' = Http(404, NoResponse)
            /\ UNCHANGED family_members
       ELSE IF role # "caregiver"
       THEN /\ response' = Http(403, NoResponse)
            /\ UNCHANGED family_members
       ELSE /\ family_members' = SelectSeq(family_members, LAMBDA r : r.id # id)
            /\ response' = Http(200, NoResponse)
    /\ UNCHANGED <<users, db_state, family_data>>

StoreFault(state) ==
    /\ request = Idle
    /\ state # db_state
    /\ db_state' = state
    /\ UNCHANGED <<users, family_members, family_data, request, response>>

\* KnowledgeGraphQueryEngine.query(question)
\* a query that writes to the store: it drops the family members it read
EngineQueryWrites(question) ==
    /\ request = Idle
    /\ request' = [op |-> "query", question |-> question]
    /\ response' = query(question)
    /\ family_members' = <<>>
    /\ UNCHANGED <<users, db_state, family_data>>

EngineQuery(question) ==
    /\ request = Idle
    /\ request' = [op |-> "query", question |-> question]
    /\ response' = query(question)
    /\ UNCHANGED <<users, family_members, db_state, family_data>>

\* questions posted to /knowledge/query
VoiceQuestions ==
    {Chars("Who is my father?"),
     Chars("Tell me about my brother"),
     Chars("Tell me about my family"),
     Chars("Who lives in Pune?"),
     Chars("rajesh peswani"),
     Chars("hello there"),
     Chars("  ")}

\* GEMINI_API_KEY set or not, and how the call to the model ends
GeminiOutcomes == {"ok", "fails"}

\* POST /knowledge/query
\* a voice query that reloads the cache from the store while it answers
VoiceQueryReloads(question, api_key, gemini) ==
    /\ request = Idle
    /\ request' = [op |-> "process_voice_query", question |-> question,
                   api_key |-> api_key, gemini |-> gemini]
    /\ response' = process_voice_query(family_data, question, api_key, gemini)
    /\ family_data' = _load_family_data(family_members)
    /\ UNCHANGED <<users, family_members, db_state>>

VoiceQuery(question, api_key, gemini) ==
    /\ request = Idle
    /\ request' = [op |-> "process_voice_query", question |-> question,
                   api_key |-> api_key, gemini |-> gemini]
    /\ response' = process_voice_query(family_data, question, api_key, gemini)
    /\ UNCHANGED <<users, family_members, db_state, family_data>>

\* the response is delivered; the server takes the next request
Complete ==
    /\ request # Idle
    /\ request' = Idle
    /\ response' = NoResponse
    /\ UNCHANGED <<users, family_members, db_state, family_data>>

Next ==
    \/ \E payload \in CreatePool, role \in Roles : CreateFamilyMember(payload, role)
    \/ \E id \in 1..MaxId, update \in ({[set |-> {"notes"}, name |-> None, notes |-> NotesPlain],
                                        [set |-> {"notes"}, name |-> None, notes |-> None]}), role \in Roles :
          UpdateFamilyMember(id, update, role)
    \/ \E id \in 1..MaxId, role \in Roles : DeleteFamilyMember(id, role)
    \/ \E state \in ({"up", "connect_fails"}) : StoreFault(state)
    \/ \E question \in ({Chars("Who is Sarita's daughter?"),
                         Chars("When is Meeta's birthday?"),
                         Chars("When is Sarita Sharma's birthday?"),
                         Chars("What is Meeta's job?"),
                         Chars("Who are Sarita's family?"),
                         Chars("How is Meeta related to Sarita"),
                         Chars("When is Zubin's birthday?"),
                         Chars("When was Priyanshi born"),
                         Chars("hello there")}) : EngineQuery(question)
    \/ \E question \in VoiceQuestions, api_key \in BOOLEAN, gemini \in GeminiOutcomes :
          VoiceQuery(question, api_key, gemini)
    \/ Complete

Spec == Init /\ [][Next]_vars

(***************************************************************************)
(* Properties of the served system                                         *)
(***************************************************************************)
\* the generic engine has just answered a question
Queried == request.op = "query"

\* the handler of the question's intent reads the store: every intent but
\* "unknown" starts by resolving a name
ReadsStore(question) == _parse_query(question).intent # "unknown"

\* C1: whatever the question and the state of the store (connection failing,
\* notes that do not parse), KnowledgeGraphQueryEngine.query returns a
\* result that carries a boolean success and a text message, never an
\* exception; a result reporting an error has success = false and the error
\* message, and a store that fails while the question is handled gives such
\* a result.
C1_QueryAlwaysStructured ==
    Queried =>
        /\ response.tag = "result"
        /\ {"success", "message"} \subseteq response.keys
        /\ response.success \in BOOLEAN
        /\ \A i \in 1..Len(response.message) : response.message[i] \in STRING
        /\ "error" \in response.keys =>
              /\ ~response.success
              /\ response.message =
                    Chars("Sorry, I encountered an error processing your question: ")
                    \o Chars(response.error)
        /\ (db_state # "up" /\ ReadsStore(request.question)) =>
              "error" \in response.keys

\* C1 witness: a question whose handler reads the store was answered while
\* the store's connection fails, and the answer is the error result
C1_Witness_StoreFailure ==
    /\ Queried
    /\ db_state # "up"
    /\ ReadsStore(request.question)
    /\ ~response.success
    /\ response.error = "OperationalError"

\* C2: once a family member of the scoped elder is created, updated or
\* deleted, every later answer of the pre-scoped engine is the answer the
\* store's current family data gives: the endpoint's response is the one
\* computed from a cache loaded from the store as it is now.
C2_CacheNeverStale ==
    request.op = "process_voice_query" =>
        response = process_voice_query(_load_family_data(family_members),
                                       request.question, request.api_key,
                                       request.gemini)

\* the voice endpoint has answered with a result of the pre-scoped engine
VoiceAnswered == request.op = "process_voice_query" /\ response.status = 200

\* no pattern of the pre-scoped engine matches the posted question
NoPeswaniPattern == PeswaniCategory(Strip(Lower(request.question))) = "unknown"

\* the posted question contains a name the name-based search looks for:
\* "suryakant", "arjun" or a key of the cache
NamesSomeone ==
    LET q == Strip(Lower(request.question))
    IN  \/ Contains(q, Chars("suryakant"))
        \/ Contains(q, Chars("arjun"))
        \/ \E i \in 1..Len(family_data) : Contains(q, family_data[i].key)

\* a result that is the unknown outcome: failure, a message, example questions
IsUnknownOutcome(r) ==
    /\ ~r.success
    /\ r.message # <<>>
    /\ "suggestions" \in r.keys
    /\ r.suggestions # <<>>

\* C14 as stated: when no pattern matches the question the result is the
\* unknown outcome (success = false, canned message, example questions as
\* suggestions), and a result carries suggestions only in that case, for
\* the generic engine and for the pre-scoped one.
C14_SuggestionsWhenNoPattern ==
    /\ Queried =>
          /\ ~ReadsStore(request.question) => IsUnknownOutcome(response)
          /\ "suggestions" \in response.keys =>
                ~response.success /\ ~ReadsStore(request.question)
    /\ VoiceAnswered =>
          /\ NoPeswaniPattern => IsUnknownOutcome(response.body)
          /\ "suggestions" \in response.body.keys =>
                ~response.body.success /\ NoPeswaniPattern

\* C14 amended: the generic engine gives the unknown outcome exactly when no
\* pattern matches; the pre-scoped engine gives it exactly when no pattern
\* matches and the question contains none of the names its name-based
\* search looks for; no other result carries suggestions.
C14_SuggestionsWhenNothingMatches ==
    /\ Queried =>
          /\ ~ReadsStore(request.question) => IsUnknownOutcome(response)
          /\ "suggestions" \in response.keys =>
                ~response.success /\ ~ReadsStore(request.question)
    /\ VoiceAnswered =>
          /\ NoPeswaniPattern /\ ~NamesSomeone => IsUnknownOutcome(response.body)
          /\ NoPeswaniPattern /\ NamesSomeone =>
                "suggestions" \notin response.body.keys
          /\ "suggestions" \in response.body.keys =>
                ~response.body.success /\ NoPeswaniPattern /\ ~NamesSomeone

\* C14 witness: a question no pattern matches and that names nobody was
\* posted to the voice endpoint and answered with the example questions
C14_Witness_UnknownWithSuggestions ==
    /\ VoiceAnswered
    /\ NoPeswaniPattern
    /\ ~NamesSomeone
    /\ IsUnknownOutcome(response.body)

\* the result of the pre-scoped engine for the posted question
EngineResult == peswani_query(family_data, request.question)

\* the humanizer is not configured, or the call to it raises
HumanizerDown == ~request.api_key \/ request.gemini = "fails"

\* C17: a humanizer that is not configured or that raises never fails the
\* query: for every successful engine result the service returns that
\* result with success and message unchanged and with humanized_response
\* equal to the engine's own message.
C17_HumanizerFailureTolerated ==
    /\ request.op = "process_voice_query"
    /\ Strip(request.question) # <<>>
    /\ ~IsRaise(EngineResult)
    /\ EngineResult.success
    /\ HumanizerDown
    => /\ response.status = 200
       /\ response.body.success
       /\ response.body.message = EngineResult.message
       /\ response.body.answer = EngineResult.answer
       /\ "humanized_response" \in response.body.keys
       /\ response.body.humanized_response = EngineResult.message

\* C17 witness: the humanizer is configured, the call to it raised, and the
\* successful result came back with the engine's message as humanized text
C17_Witness_HumanizerRaised ==
    /\ request.op = "process_voice_query"
    /\ request.api_key
    /\ request.gemini = "fails"
    /\ response.status = 200
    /\ response.body.success
    /\ response.body.humanized_response = response.body.message

\* the step is a query of one of the two engines
QueryStep == request = Idle /\ request'.op \in {"query", "process_voice_query"}

\* C18: the query engines are read-only: a query of either engine, whatever
\* its outcome (error results included), leaves the elder and family-member
\* records of the store exactly as they were, so any sequence of queries
\* does.
C18_QueriesReadOnly ==
    [][QueryStep => users' = users /\ family_members' = family_members]_vars

\* C18 witness: a query that read a store holding family members ended in
\* an error result
C18_Witness_ErrorResultOverStore ==
    /\ Queried
    /\ family_members # <<>>
    /\ "error" \in response.keys

\* C19: the pre-scoped engine's family cache is written only during
\* construction: no query (pattern dispatch, person info, brothers info,
\* family listing, location lookup, name fallback) adds, removes or changes
\* a cache entry.
C19_CacheWrittenOnlyAtConstruction ==
    [][QueryStep => family_data' = family_data]_vars

\* C19 witness: the pre-scoped engine answered from a cache that holds an
\* entry, while the store has since changed
C19_Witness_AnsweredFromCache ==
    /\ VoiceAnswered
    /\ family_data # <<>>
    /\ family_data # _load_family_data(family_members)
    /\ response.body.success

(***************************************************************************)
(* Queries served concurrently on the shared service: every call keeps its *)
(* question and its intermediate values in its own local variables, opens  *)
(* its own connections (_get_connection) and reads the shared cache; the   *)
(* steps of the calls in flight interleave                                 *)
(***************************************************************************)
\* the calls that can be in flight together
MaxTasks == 2

\* a call: where it stands, what it was asked, its local value, and whether
\* one of its steps ran while another call was in flight
Task(pc, kind, question, api_key, gemini, local, overlapped) ==
    [pc |-> pc, kind |-> kind, question |-> question, api_key |-> api_key,
     gemini |-> gemini, local |-> local, overlapped |-> overlapped]

\* the task after a step that leaves it at pc with the local value
Stepped(t, pc, local) ==
    LET \* another call is between its first and its last step
        OthersInFlight ==
            \E u \in 1..MaxTasks \ {t} :
                request[u].pc \in {"asked", "parsed", "posted", "answered"}
    IN  [request[t] EXCEPT !.pc = pc, !.local = local,
                           !.overlapped = @ \/ OthersInFlight]

\* the store stays as it is: no action of this specification writes to it
InitConcurrent ==
    /\ users = SeedUsers
    /\ family_members \in
          {<<Row(1, PeswaniUserId, Chars("Rajesh Peswani"), Chars("father"),
                 Chars("Mumbai"), NotesRajesh)>>,
           <<Row(1, PeswaniUserId, Chars("Rajesh Peswani"), Chars("father"),
                 Chars("Mumbai"), NotesRajesh),
             Row(2, 1, Chars("Meeta Sharma"), Chars("daughter"), None, NotesFull)>>}
    /\ db_state = "up"
    /\ family_data = _load_family_data(family_members)
    /\ request = [t \in 1..MaxTasks |->
                      Task("idle", "none", <<>>, FALSE, "ok", NoResponse, FALSE)]
    /\ response = [t \in 1..MaxTasks |-> NoResponse]

\* kg_engine.query(question) is called
Ask(t, question) ==
    /\ request[t].pc = "idle"
    /\ request' = [request EXCEPT ![t] =
                      Task("asked", "query", question, FALSE, "ok", NoResponse, FALSE)]
    /\ UNCHANGED <<users, family_members, db_state, family_data, response>>

\* a classifier that remembers: it returns what a call in flight has parsed
\* when there is one, whatever its own text
ParseRemembered(t) ==
    /\ request[t].pc = "asked"
    /\ \E u \in 1..MaxTasks :
          /\ IF \E v \in 1..MaxTasks : request[v].pc = "parsed"
             THEN request[u].pc = "parsed" ELSE u = t
          /\ request' = [request EXCEPT ![t] =
                            Stepped(t, "parsed",
                                    IF u = t THEN _parse_query(request[t].question)
                                    ELSE request[u].local)]
    /\ UNCHANGED <<users, family_members, db_state, family_data, response>>

\* parsed = self._parse_query(question)
Parse(t) ==
    /\ request[t].pc = "asked"
    /\ request' = [request EXCEPT ![t] =
                      Stepped(t, "parsed", _parse_query(request[t].question))]
    /\ UNCHANGED <<users, family_members, db_state, family_data, response>>

\* a handler that takes the parsed question from a slot all calls share
HandleSharedParsed(t) ==
    /\ request[t].pc = "parsed"
    /\ \E u \in 1..MaxTasks :
          /\ request[u].pc = "parsed"
          /\ response' = [response EXCEPT ![t] = AnswerParsed(request[u].local)]
    /\ request' = [request EXCEPT ![t] = Stepped(t, "done", NoResponse)]
    /\ UNCHANGED <<users, family_members, db_state, family_data>>

\* the unknown result, or the try block: the handler reads the store over
\* the connections it opens itself
HandleParsed(t) ==
    /\ request[t].pc = "parsed"
    /\ response' = [response EXCEPT ![t] = AnswerParsed(request[t].local)]
    /\ request' = [request EXCEPT ![t] = Stepped(t, "done", NoResponse)]
    /\ UNCHANGED <<users, family_members, db_state, family_data>>

\* POST /knowledge/query
Post(t, question, api_key, gemini) ==
    /\ request[t].pc = "idle"
    /\ request' = [request EXCEPT ![t] =
                      Task("posted", "voice", question, api_key, gemini, NoResponse, FALSE)]
    /\ UNCHANGED <<users, family_members, db_state, family_data, response>>

\* the blank-query test, then kg_result = self.peswani_kg.query(query),
\* which reads the shared cache
QueryCache(t) ==
    /\ request[t].pc = "posted"
    /\ IF Strip(request[t].question) = <<>>
       THEN /\ request' = [request EXCEPT ![t] = Stepped(t, "done", NoResponse)]
            /\ response' = [response EXCEPT ![t] =
                               process_voice_query(family_data, request[t].question,
                                                   request[t].api_key, request[t].gemini)]
       ELSE /\ request' = [request EXCEPT ![t] =
                              Stepped(t, "answered",
                                      peswani_query(family_data, request[t].question))]
            /\ UNCHANGED response
    /\ UNCHANGED <<users, family_members, db_state, family_data>>

\* the call to the humanizer, and the response
HumanizeCall(t) ==
    /\ request[t].pc = "answered"
    /\ response' = [response EXCEPT ![t] =
                       VoiceResponse(Humanized(request[t].local, request[t].api_key,
                                               request[t].gemini))]
    /\ request' = [request EXCEPT ![t] = Stepped(t, "done", NoResponse)]
    /\ UNCHANGED <<users, family_members, db_state, family_data>>

\* the caller takes the result
Return(t) ==
    /\ request[t].pc = "done"
    /\ request' = [request EXCEPT ![t] =
                      Task("idle", "none", <<>>, FALSE, "ok", NoResponse, FALSE)]
    /\ response' = [response EXCEPT ![t] = NoResponse]
    /\ UNCHANGED <<users, family_members, db_state, family_data>>

NextConcurrent ==
    \/ \E t \in 1..MaxTasks,
          question \in {Chars("Who is Sarita's daughter?"),
                        Chars("When is Sarita Sharma's birthday?"),
                        Chars("hello there")} : Ask(t, question)
    \/ \E t \in 1..MaxTasks : Parse(t)
    \/ \E t \in 1..MaxTasks : HandleParsed(t)
    \/ \E t \in 1..MaxTasks,
          question \in {Chars("Who is my father?"), Chars("Tell me about my family"),
                        Chars("  ")},
          api_key \in BOOLEAN, gemini \in GeminiOutcomes : Post(t, question, api_key, gemini)
    \/ \E t \in 1..MaxTasks : QueryCache(t)
    \/ \E t \in 1..MaxTasks : HumanizeCall(t)
    \/ \E t \in 1..MaxTasks : Return(t)

SpecConcurrent == InitConcurrent /\ [][NextConcurrent]_vars

(***************************************************************************)
(* Properties of concurrent queries                                        *)
(***************************************************************************)
\* the result the call of task t returns when it runs alone on the store
Alone(t) ==
    IF request[t].kind = "query" THEN query(request[t].question)
    ELSE process_voice_query(family_data, request[t].question, request[t].api_key,
                             request[t].gemini)

\* C20: queries served concurrently on the shared engine instances do not
\* interfere: with the store contents fixed, the result of each query under
\* any interleaving of the steps of several queries equals the result it
\* returns when it runs alone.
C20_ConcurrentQueriesIndependent ==
    \A t \in 1..MaxTasks : request[t].pc = "done" => response[t] = Alone(t)

\* C20 witness: two calls with different questions have finished, each
\* having taken a step while the other was in flight
C20_Witness_Interleaved ==
    /\ \A t \in 1..MaxTasks : request[t].pc = "done" /\ request[t].overlapped
    /\ request[1].question # request[2].question
    /\ request[1].kind = "query"
    /\ response[1].success

(***************************************************************************)
(* PeswaniKnowledgeGraph.query over the caches construction can load       *)
(***************************************************************************)
MaxPeswaniMembers == 2

\* the family members stored for the scoped elder when the engine is
\* constructed: notes are free text, and the column is nullable
InitPeswani ==
    /\ users = SeedUsers
    /\ family_members \in
          UNION {{[i \in 1..n |->
                      Row(i, PeswaniUserId, pick[i][1][1], pick[i][1][2],
                          pick[i][1][3], pick[i][2])] :
                    pick \in [1..n ->
                        {<<Chars("Rajesh Peswani"), Chars("father"), Chars("Mumbai")>>,
                         <<Chars("Arjun Peswani"), Chars("brother"), Chars("Pune")>>,
                         <<Chars("Suryakant Kasare"), Chars("brother"), Chars("Pune")>>}
                        \X {NotesRajesh, Chars("Age 58"), Chars("Retired banker"),
                            Chars(""), None}]} :
                 n \in 0..MaxPeswaniMembers}
    /\ db_state = "up"
    /\ family_data = _load_family_data(family_members)
    /\ request = Idle
    /\ response = NoResponse

\* PeswaniKnowledgeGraph.query(question)
AskPeswani(question) ==
    /\ request = Idle
    /\ request' = [op |-> "peswani_query", question |-> question]
    /\ response' = peswani_query(family_data, question)
    /\ UNCHANGED <<users, family_members, db_state, family_data>>

NextPeswani ==
    \E question \in {Chars("Who is my father?"), Chars("Tell me about my brother"),
                     Chars("Tell me about my family"), Chars("who is arjun"),
                     Chars("tell me about suryakant"), Chars("Who lives in Pune?"),
                     Chars("rajesh peswani"), Chars("hello there")} :
        AskPeswani(question)

SpecPeswani == InitPeswani /\ [][NextPeswani]_vars

(***************************************************************************)
(* Properties of the pre-scoped engine                                     *)
(***************************************************************************)
\* the pre-scoped engine has just been asked
Asked == request.op = "peswani_query"

\* C22: extraction of age and profession from the notes is best-effort:
\* whatever the notes of the cached family members (not of the shape
\* "Age <digits>, <profession>, ...", empty, or missing), the pre-scoped
\* engine returns a structured result and raises no error.
C22_NotesBestEffort ==
    Asked => ~IsRaise(response) /\ response.tag = "result"

(***************************************************************************)
(* _normalize_name on its own                                              *)
(***************************************************************************)
\* the names put to _normalize_name: what precedes the name, the name, and
\* what follows it
NamePool ==
    {leading \o name \o trailing :
        leading  \in {Chars(""), Chars("Dr. "), Chars("Mrs "), Chars("mr"),
                      Chars("Prof.  "), Chars(" MS. ")},
        name     \in {Chars("Anna"), Chars("Drew"), Chars("Anna Drew"), Chars("Mr Lee"),
                      Chars("Samsa"), Chars("Lee, Dr"), Chars("O'Mrs")},
        trailing \in {Chars(""), Chars(" "), Chars(" Dr."), Chars(" Prof ")}}

InitNormalize ==
    /\ users = SeedUsers
    /\ family_members = <<>>
    /\ db_state = "up"
    /\ family_data = _load_family_data(family_members)
    /\ request = Idle
    /\ response = NoResponse

\* KnowledgeGraphQueryEngine._normalize_name(name)
NormalizeName(name) ==
    /\ request = Idle
    /\ request' = [op |-> "_normalize_name", name |-> name]
    /\ response' = _normalize_name(name)
    /\ UNCHANGED <<users, family_members, db_state, family_data>>

NextNormalize == \E name \in NamePool : NormalizeName(name)

SpecNormalize == InitNormalize /\ [][NextNormalize]_vars

(***************************************************************************)
(* Properties of _normalize_name                                           *)
(***************************************************************************)
\* _normalize_name has just been called
Normalized == request.op = "_normalize_name"

\* C15: normalizing a name twice gives what normalizing it once gives:
\* _normalize_name(_normalize_name(s)) = _normalize_name(s).
C15_NormalizeIdempotent ==
    Normalized => _normalize_name(response) = response

\* the titles the text starts with
LeadingHonorifics(text) == {t \in 1..Len(Titles) : StartsAt(text, 1, Titles[t])}

\* C16: _normalize_name returns the trimmed, lowercased input with only a
\* leading honorific (mr, mrs, ms, dr, prof, with an optional period)
\* removed: what follows the leading position is unchanged, and a name
\* without a leading honorific comes back as its trimmed lowercase form.
\* (Any title the text starts with counts as its leading honorific, and the
\* whitespace after it goes with it.)
C16_OnlyLeadingHonorific ==
    Normalized =>
        LET text == Strip(Lower(request.name))
            Rest(t) ==
                LET afterTitle == Len(Titles[t]) + 1
                    afterDot   == IF afterTitle <= Len(text) /\ text[afterTitle] = "."
                                  THEN afterTitle + 1 ELSE afterTitle
                IN  SubSeq(text, SkipSpaces(text, afterDot), Len(text))
        IN  IF LeadingHonorifics(text) = {} THEN response = text
            ELSE \E t \in LeadingHonorifics(text) : response = Rest(t)

(***************************************************************************)
(* The classifiers on their own: _parse_query, and the pattern walk of     *)
(* PeswaniKnowledgeGraph.query                                             *)
(***************************************************************************)
\* the texts put to the classifiers: an opening, a subject and an ending
QuestionPool ==
    LET QuestionOpenings ==
            {Chars("Who is "), Chars("what is "), Chars("When is "), Chars("name of "),
             Chars("Tell me about "), Chars("who are "), Chars("")}
        QuestionSubjects ==
            {Chars("Sarita"), Chars("my"), Chars("arjun and my"), Chars("Mrs. Rao")}
        QuestionEndings ==
            {Chars("'s daughter?"), Chars("'s sons"), Chars("s daughter's birthday "),
             Chars("'s son's profession"), Chars("'s job"), Chars(" father"),
             Chars(" brother to Ravi"), Chars("'s family members"), Chars("")}
    IN  {opening \o subject \o ending :
            opening \in QuestionOpenings, subject \in QuestionSubjects,
            ending \in QuestionEndings}

InitParse ==
    /\ users = SeedUsers
    /\ family_members = <<>>
    /\ db_state = "up"
    /\ family_data = <<>>
    /\ request = Idle
    /\ response = NoResponse

\* KnowledgeGraphQueryEngine._parse_query(question)
ParseQuery(question) ==
    /\ request = Idle
    /\ request' = [op |-> "_parse_query", question |-> question]
    /\ response' = _parse_query(question)
    /\ UNCHANGED <<users, family_members, db_state, family_data>>

\* the loop over self.patterns at the head of PeswaniKnowledgeGraph.query
PeswaniWalk(question) ==
    /\ request = Idle
    /\ request' = [op |-> "peswani_walk", question |-> question]
    /\ response' = [intent |-> PeswaniCategory(Strip(Lower(question))),
                    raw_query |-> Strip(Lower(question))]
    /\ UNCHANGED <<users, family_members, db_state, family_data>>

NextParse ==
    \/ \E question \in QuestionPool : ParseQuery(question)
    \/ \E question \in QuestionPool : PeswaniWalk(question)

SpecParse == InitParse /\ [][NextParse]_vars

\* the <<category, pattern>> positions of the table whose pattern is found in
\* the text
Matching(table, text) ==
    {cp \in UNION {{<<c, p>> : p \in 1..Len(table[c].patterns)} : c \in 1..Len(table)} :
        re_search(table[cp[1]].patterns[cp[2]], text).ok}

\* declared order: category first, then pattern within the category
Before(a, b) == a[1] < b[1] \/ (a[1] = b[1] /\ a[2] <= b[2])

\* what first-match semantics prescribes for the text
Declared(table, text) ==
    LET found == Matching(table, text)
        first == CHOOSE a \in found : \A b \in found : Before(a, b)
    IN  IF found = {} THEN [intent |-> "unknown", entities |-> <<>>]
        ELSE [intent |-> table[first[1]].intent,
              entities |-> re_search(table[first[1]].patterns[first[2]], text).groups]

\* C3: both classifiers walk the categories in declared order and, within a
\* category, the patterns in declared order, and return the intent (the
\* generic one also the captures) of the first pattern that matches; when
\* patterns of two categories match the text, the category declared earlier
\* wins; "unknown" when none matches.
C3_FirstMatchInDeclaredOrder ==
    /\ request.op = "_parse_query" =>
          /\ response.intent = Declared(query_patterns, response.raw_query).intent
          /\ response.entities = Declared(query_patterns, response.raw_query).entities
    /\ request.op = "peswani_walk" =>
          response.intent = Declared(peswani_patterns, response.raw_query).intent

\* C3 witness: a text that patterns of two different categories match was
\* classified, and got the intent of the earlier category
C3_Witness_TwoCategoriesMatch ==
    /\ request.op \in {"_parse_query", "peswani_walk"}
    /\ LET table == IF request.op = "_parse_query" THEN query_patterns
                    ELSE peswani_patterns
           found == Matching(table, response.raw_query)
       IN  /\ \E a \in found, b \in found : a[1] < b[1]
           /\ \E a \in found : /\ table[a[1]].intent = response.intent
                               /\ \A b \in found : a[1] <= b[1]

(***************************************************************************)
(* The entity resolver on its own: _find_person_by_name over the stores    *)
(* a small registry can hold                                               *)
(***************************************************************************)
MaxResolveUsers == 2
MaxResolveMembers == 2

\* tables whose rows carry the ids 1..n in rowid order
ResolveUsers ==
  LET \* full_name and user_type of the registered users
      ResolveUserPool ==
          {<<Chars("Anna"), "elder">>, <<Chars("Bob"), "elder">>,
           <<Chars("Bob"), "caregiver">>}
  IN
    UNION {{[i \in 1..n |-> UserRow(i, pick[i][1], pick[i][2], None)] :
                pick \in [1..n -> ResolveUserPool]} : n \in 1..MaxResolveUsers}

ResolveMembers(owners) ==
  LET \* names of the family members
      ResolveMemberNames == {Chars("Anne"), Chars("Anni")}
  IN
    UNION {{[i \in 1..n |-> Row(i, pick[i][1], pick[i][2], Chars("daughter"), None, None)] :
                pick \in [1..n -> owners \X ResolveMemberNames]} :
           n \in 0..MaxResolveMembers}

InitResolve ==
    /\ users \in ResolveUsers
    /\ family_members \in ResolveMembers(1..Len(users))
    /\ db_state = "up"
    /\ family_data = _load_family_data(family_members)
    /\ request = Idle
    /\ response = NoResponse

\* KnowledgeGraphQueryEngine._find_person_by_name(name)
FindPerson(name) ==
    /\ request = Idle
    /\ request' = [op |-> "_find_person_by_name", name |-> name]
    /\ response' = _find_person_by_name(name)
    /\ UNCHANGED <<users, family_members, db_state, family_data>>

NextResolve == \E name \in ({Chars("Ann"), Chars("anne"), Chars("annx"), Chars("anxe"), Chars("ann i"),
                             Chars("bxb"), Chars("bobxyzw"), Chars("Dr. Anne"), Chars("zzz")}) : FindPerson(name)

SpecResolve == InitResolve /\ [][NextResolve]_vars

(***************************************************************************)
(* Properties of the entity resolver                                       *)
(***************************************************************************)
\* the resolver has just been called
Resolved == request.op = "_find_person_by_name"

\* the normalized fragment of the call
Fragment == _normalize_name(request.name)

\* the users, and the family members, whose name contains the fragment
ElderContains ==
    {i \in 1..Len(users) : Contains(Lower(users[i].full_name), Fragment)}
FamilyContains ==
    {i \in 1..Len(family_members) : Contains(Lower(family_members[i].name), Fragment)}

\* C4: resolution follows a strict order. When some elder's name contains
\* the normalized fragment (case-insensitively) the result is an elder
\* reference to such an elder, even when a family member's name contains it
\* too; a family-member reference is returned only when no elder's name
\* contains the fragment, and it is then a member whose name contains it;
\* a name that contains the fragment is never passed over for a fuzzy match.
C4_ResolutionOrder ==
    Resolved =>
        /\ ElderContains # {} =>
              /\ response.tag = "person"
              /\ response.type = "elder"
              /\ \E i \in ElderContains : response.id = users[i].id
        /\ (response.tag = "person" /\ response.type = "family_member") =>
              ElderContains = {}
        /\ (ElderContains = {} /\ FamilyContains # {}) =>
              /\ response.tag = "person"
              /\ response.type = "family_member"
              /\ \E i \in FamilyContains : response.id = family_members[i].id

\* C4 witness: an elder's name and a family member's name both contain the
\* fragment, and the resolver returned the elder
C4_Witness_ElderBeforeFamily ==
    /\ Resolved
    /\ ElderContains # {}
    /\ FamilyContains # {}
    /\ response.type = "elder"

\* the fuzzy step ran: no name contains the fragment
FuzzyRan == Resolved /\ ElderContains = {} /\ FamilyContains = {}

\* every elder and family member, as the fuzzy step's candidates
Candidates ==
    {[type |-> "elder", id |-> users[i].id, name |-> users[i].full_name] :
        i \in 1..Len(users)}
    \cup {[type |-> "family_member", id |-> family_members[i].id,
           name |-> family_members[i].name] : i \in 1..Len(family_members)}

\* the similarity of a name to the fragment
Similarity(name) == Ratio(Fragment, Lower(name))

SixTenths == <<6, 10>>

\* C5: the fuzzy step never returns a candidate whose similarity to the
\* normalized fragment is 0.6 or less, and when every candidate's similarity
\* is 0.6 or less the resolution fails with not-found.
C5_FuzzyAboveThreshold ==
    FuzzyRan =>
        /\ response.tag = "person" => RatioGt(Similarity(response.name), SixTenths)
        /\ (\A c \in Candidates : ~RatioGt(Similarity(c.name), SixTenths)) =>
              response = NoPerson

\* C5 witness: the fuzzy step ran over a candidate whose similarity is
\* exactly 0.6, no candidate was above it, and the resolution failed
C5_Witness_ExactlySixTenths ==
    /\ FuzzyRan
    /\ \E c \in Candidates : Similarity(c.name)[1] * 10 = 6 * Similarity(c.name)[2]
    /\ response = NoPerson

\* the fuzzy step returned a candidate
FuzzyAccepted == FuzzyRan /\ response.tag = "person"

\* the candidates of maximal similarity
Closest ==
    {c \in Candidates : \A d \in Candidates :
        ~RatioGt(Similarity(d.name), Similarity(c.name))}

MaxAnswerMembers == 2

AnswerUsers ==
    <<UserRow(1, Chars("Anna"), "elder", Chars("1945-03-15")),
      UserRow(2, Chars("Bob"), "elder", None)>>

InitAnswer ==
    /\ users = AnswerUsers
    /\ family_members \in (LET \* name, relationship_type and notes of the family members
                               AnswerMemberPool ==
                                   {<<Chars("Meeta"), Chars("daughter"), NotesFull>>,
                                    <<Chars("Meeta"), Chars("daughter"), None>>,
                                    <<Chars("MEETA"), Chars("daughter"), NotesJobOnly>>,
                                    <<Chars("Ravi"), Chars("son"), NotesJobOnly>>,
                                    <<Chars("Rita"), Chars("daughter"), NotesPlain>>,
                                    <<Chars("Mira"), Chars("Daughter"), NotesEmptyObject>>,
                                    <<Chars("Dina"), Chars("daughter-in-law"), NotesEmptyObject>>}
                           IN
                             UNION {{[i \in 1..n |->
                                         Row(i, pick[i][1], pick[i][2][1], pick[i][2][2], None, pick[i][2][3])] :
                                         pick \in [1..n -> (1..Len(AnswerUsers)) \X AnswerMemberPool]} :
                                    n \in 0..MaxAnswerMembers})
    /\ db_state = "up"
    /\ family_data = _load_family_data(family_members)
    /\ request = Idle
    /\ response = NoResponse

\* the body of query after _parse_query: the try block and its except
Handle(intent, entities) ==
    /\ request = Idle
    /\ request' = [op |-> "handle", intent |-> intent, entities |-> entities]
    /\ response' = Guarded(Dispatch(intent, entities))
    /\ UNCHANGED <<users, family_members, db_state, family_data>>

NextAnswer == \E r \in (LET AnswerNames ==
                                {Chars("anna"), Chars("bob"), Chars("meeta"), Chars("ravi"), Chars("rita"),
                                 Chars("mira"), Chars("zed")}
                        IN
                          {<<intent, <<name>>>> :
                              intent \in {"daughter_name", "son_name", "birthday", "profession",
                                          "family_members"},
                              name \in AnswerNames}
                          \cup {<<"relationship", <<person1, person2>>>> :
                                  person1 \in AnswerNames \ {Chars("mira")},
                                  person2 \in AnswerNames \ {Chars("mira")}}) : Handle(r[1], r[2])

SpecAnswer == InitAnswer /\ [][NextAnswer]_vars

(***************************************************************************)
(* Properties of the handlers                                              *)
(***************************************************************************)
\* a question of one of the intents has just been handled
Handled(intents) == request.op = "handle" /\ request.intent \in intents

\* the person the first captured name resolves to
Subject == _find_person_by_name(request.entities[1])

IsElder(p) == p.tag = "person" /\ p.type = "elder"
IsMember(p) == p.tag = "person" /\ p.type = "family_member"

\* the stored row of a resolved family member
MemberRow(p) ==
    family_members[CHOOSE i \in 1..Len(family_members) : family_members[i].id = p.id]

\* C7: a relationship query between two people succeeds only if one of the
\* two resolved persons is an elder and the other a family member owned by
\* that elder, and the answer is then that member's relationship label;
\* every other pair of resolved persons (two family members, two elders, a
\* member of another elder) gives success = false with the "couldn't
\* determine the relationship" message.
C7_RelationshipOnlyWithinFamily ==
    Handled({"relationship"}) =>
        LET p1 == _find_person_by_name(request.entities[1])
            p2 == _find_person_by_name(request.entities[2])
            both == p1.tag = "person" /\ p2.tag = "person"
            owned == {pr \in {<<p1, p2>>, <<p2, p1>>} :
                        /\ IsElder(pr[1])
                        /\ IsMember(pr[2])
                        /\ pr[2].user_id = pr[1].id}
        IN  /\ response.success <=> (both /\ owned # {})
            /\ response.success =>
                  \E pr \in owned :
                      response.answer = TextAnswer(MemberRow(pr[2]).relationship_type)
            /\ (both /\ owned = {}) =>
                  response.message =
                      Chars("I couldn't determine the relationship between ")
                      \o request.entities[1] \o Chars(" and ")
                      \o request.entities[2] \o Chars(".")

\* C7 witness: the two names resolve to a family member and to an elder who
\* does not own that member, and the query failed
C7_Witness_MemberOfAnotherElder ==
    /\ Handled({"relationship"})
    /\ IsElder(_find_person_by_name(request.entities[1]))
    /\ IsMember(_find_person_by_name(request.entities[2]))
    /\ _find_person_by_name(request.entities[2]).user_id
          # _find_person_by_name(request.entities[1]).id
    /\ ~response.success

\* the label a child query filters on
ChildLabel == IF request.intent = "daughter_name" THEN Chars("daughter") ELSE Chars("son")

\* the subject's stored family members whose label is the one asked for
ChildRows ==
    SelectSeq(family_members,
              LAMBDA f : f.user_id = Subject.id /\ Lower(f.relationship_type) = ChildLabel)

ChildNames == [i \in 1..Len(ChildRows) |-> ChildRows[i].name]

\* C8: for a daughter/son query whose subject resolves to an elder: with
\* exactly one matching child the answer is that child's name and the
\* message the singular template; with more than one the answer is the list
\* of the children's names and the message lists them joined by commas;
\* with none the answer is null and success is true.
C8_ChildAnswerByCount ==
    (Handled({"daughter_name", "son_name"}) /\ IsElder(Subject)) =>
        /\ response.success
        /\ Len(ChildRows) = 0 => response.answer = NullAnswer
        /\ Len(ChildRows) = 1 =>
              /\ response.answer = TextAnswer(ChildNames[1])
              /\ response.message =
                    Subject.name \o Chars("'s ") \o ChildLabel \o Chars(" is ")
                    \o ChildNames[1] \o Chars(".")
        /\ Len(ChildRows) > 1 =>
              /\ response.answer = ListAnswer(ChildNames)
              /\ response.message =
                    Subject.name \o Chars(" has ") \o IntText(Len(ChildRows))
                    \o Chars(" ") \o ChildLabel \o Chars("s: ")
                    \o Join(ChildNames, Chars(", ")) \o Chars(".")

\* the subject's stored family members a child or family-listing query is
\* about
RequestedRows ==
    IF request.intent = "family_members"
    THEN SelectSeq(family_members, LAMBDA f : f.user_id = Subject.id)
    ELSE ChildRows

\* C9: an empty result set is not an error: when the subject resolves to an
\* elder who has no family member matching the request (no daughters, no
\* sons, no family members at all), the child and the family-listing
\* queries return success = true with a null or empty answer.
C9_EmptyIsNotAnError ==
    (/\ Handled({"daughter_name", "son_name", "family_members"})
     /\ IsElder(Subject)
     /\ RequestedRows = <<>>) =>
            /\ response.success
            /\ response.answer \in {NullAnswer, ListAnswer(<<>>)}
            /\ "error" \notin response.keys

\* C9 witness: an elder with family members, none of them a son, was asked
\* for a son, and the answer is the null answer with success = true
C9_Witness_NoSons ==
    /\ Handled({"son_name"})
    /\ IsElder(Subject)
    /\ \E i \in 1..Len(family_members) : family_members[i].user_id = Subject.id
    /\ RequestedRows = <<>>
    /\ response.success
    /\ response.answer = NullAnswer

\* a notes value that carries a birthday
CarriesBirthday(notes) == notes = NotesFull

\* the resolved person has no birthday on file
NoBirthdayOnFile(p) ==
    IF IsElder(p)
    THEN \A i \in 1..Len(users) :
            users[i].id = p.id => ~Truthy(users[i].date_of_birth)
    ELSE ~CarriesBirthday(MemberRow(p).notes)

\* C10: a birthday query whose subject resolves to a person with no
\* birthday on file (an elder with no date of birth, a family member whose
\* notes carry no birthday) returns success = false with the "don't have
\* birthday information" message naming that person, not an error.
C10_NoBirthdayOnFile ==
    (/\ Handled({"birthday"})
     /\ Subject.tag = "person"
     /\ NoBirthdayOnFile(Subject)) =>
            /\ ~response.success
            /\ response.message =
                  Chars("I don't have birthday information for ") \o Subject.name
                  \o Chars(".")
            /\ "error" \notin response.keys

\* a notes value that carries a profession
CarriesProfession(notes) == notes \in {NotesFull, NotesJobOnly}

\* C11: a profession query succeeds only when the subject resolves to a
\* family member whose notes carry a profession, and the answer is then
\* that profession; when the subject resolves to an elder the query returns
\* success = false with the "don't have profession information" message
\* naming the elder, whatever the store contains.
C11_ProfessionOnlyForMembers ==
    Handled({"profession"}) =>
        /\ response.success =>
              /\ IsMember(Subject)
              /\ CarriesProfession(MemberRow(Subject).notes)
              /\ response.answer =
                    TextAnswer(json_loads(MemberRow(Subject).notes).profession)
        /\ IsElder(Subject) =>
              /\ ~response.success
              /\ response.message =
                    Chars("I don't have profession information for ")
                    \o Subject.name \o Chars(".")
              /\ "error" \notin response.keys

\* C11 witness: the subject resolved to an elder who owns a family member
\* with a profession in its notes, and the profession query failed
C11_Witness_ElderHasNoProfession ==
    /\ Handled({"profession"})
    /\ IsElder(Subject)
    /\ \E i \in 1..Len(family_members) :
          /\ family_members[i].user_id = Subject.id
          /\ CarriesProfession(family_members[i].notes)
    /\ ~response.success

\* the "Name (relationship)" entries of the subject's stored family members
OwnedEntries ==
    LET owned == SelectSeq(family_members, LAMBDA f : f.user_id = Subject.id)
    IN  [i \in 1..Len(owned) |->
            owned[i].name \o Chars(" (") \o owned[i].relationship_type \o Chars(")")]

\* C12: a family-listing query succeeds only when the subject resolves to
\* an elder, and the answer is then the list of one "Name (relationship)"
\* entry for every family member owned by that elder, with no entry for a
\* member of another elder; when the subject resolves to a family member
\* the query returns success = false.
C12_FamilyListingOfElder ==
    Handled({"family_members"}) =>
        /\ response.success =>
              /\ IsElder(Subject)
              /\ response.answer = ListAnswer(OwnedEntries)
        /\ IsMember(Subject) => ~response.success

\* C12 witness: the subject resolved to an elder who owns a family member
\* while another elder owns one too, and the listing succeeded
C12_Witness_TwoFamilies ==
    /\ Handled({"family_members"})
    /\ IsElder(Subject)
    /\ \E i, j \in 1..Len(family_members) :
          /\ family_members[i].user_id = Subject.id
          /\ family_members[j].user_id # Subject.id
    /\ response.success

\* every intent whose handler resolves a captured name
NamedIntents ==
    {"daughter_name", "son_name", "birthday", "profession", "family_members",
     "relationship"}

\* the second person of a two-person question
Other == _find_person_by_name(request.entities[2])

\* the captured fragments that did not resolve
Unresolved ==
    {i \in 1..Len(request.entities) :
        _find_person_by_name(request.entities[i]).tag = "none"}

\* C13: whenever a captured name fragment cannot be resolved, the result has
\* success = false and its message names, between quotes, a fragment that
\* failed: the first of them, so in a two-person question the second
\* person's fragment when the first person was found.
C13_NotFoundNamesFragment ==
    Handled(NamedIntents) /\ Unresolved # {} =>
        LET failed == request.entities[CHOOSE i \in Unresolved :
                                          \A j \in Unresolved : i <= j]
            named  == Chars("I couldn't find anyone named '") \o failed \o Chars("'")
        IN  /\ ~response.success
            /\ StartsAt(response.message, 1, named)
            /\ "error" \notin response.keys

\* C13 witness: a two-person question whose first person was found and
\* whose second was not
C13_Witness_SecondPersonUnknown ==
    /\ Handled({"relationship"})
    /\ Subject.tag = "person"
    /\ Other.tag = "none"
    /\ ~response.success

\* what the child handler's fetch returns: the subject's family members
\* under the relationship filter
Fetched == _get_family_members(Subject.id, ChildLabel)

\* C23: fetching an elder's family members with a relationship filter
\* returns exactly the members of that elder whose relationship label
\* equals the filter case-insensitively: a label that merely contains the
\* filter ("daughter-in-law" for "daughter") is excluded, a label differing
\* only in letter case is included, and no member of another elder is
\* returned. The child query hands the returned members on as its details.
C23_FilterExactCaseInsensitive ==
    (Handled({"daughter_name", "son_name"}) /\ IsElder(Subject) /\ ~IsRaise(Fetched)) =>
        /\ [i \in 1..Len(Fetched.members) |-> Fetched.members[i].id]
              = [i \in 1..Len(ChildRows) |-> ChildRows[i].id]
        /\ \A i \in 1..Len(Fetched.members) :
              /\ Lower(Fetched.members[i].relationship) = ChildLabel
              /\ \E j \in 1..Len(family_members) :
                    /\ family_members[j].id = Fetched.members[i].id
                    /\ family_members[j].user_id = Subject.id
        /\ response.success
        /\ Len(ChildRows) = 1 => response.answer = TextAnswer(ChildRows[1].name)
        /\ Len(ChildRows) > 1 => response.answer = ListAnswer(ChildNames)

\* C23 witness: the elder asked about has a member labelled "Daughter" and
\* one labelled "daughter-in-law", and the daughter query answered with the
\* first alone
C23_Witness_LabelCaseAndContainment ==
    /\ Handled({"daughter_name"})
    /\ IsElder(Subject)
    /\ \E i, j \in 1..Len(family_members) :
          /\ family_members[i].user_id = Subject.id
          /\ family_members[i].relationship_type = Chars("Daughter")
          /\ family_members[j].user_id = Subject.id
          /\ family_members[j].relationship_type = Chars("daughter-in-law")
          /\ response.answer = TextAnswer(family_members[i].name)
    /\ response.success

C25_BlankQueryRejectedWith400 ==
    request.op = "process_voice_query" =>
        /\ Strip(request.question) = <<>> => response.status = 400
        /\ response.status = 500 => Strip(request.question) # <<>>

\* the specific-individual categories some pattern of which is found in the
\* question put to the pre-scoped engine
IndividualCategories ==
    {peswani_patterns[cp[1]].intent :
        cp \in Matching(peswani_patterns, Strip(Lower(request.question)))}
    \cap {"arjun", "suryakant"}

\* C26: in the pre-scoped engine a question that matches a pattern of a
\* specific-individual category ('arjun' or 'suryakant', e.g. "who is
\* arjun", "tell me about suryakant") is handled as that category and
\* answered with that single individual's information, not with the
\* combined answer of another category.
C26_SpecificIndividualCategory ==
    Asked =>
        \A category \in IndividualCategories :
            response = _handle_query(family_data, category,
                                     Strip(Lower(request.question)))

\* C27: every resolved person returned with type "elder" refers to a user
\* record whose user_type is elder: a caregiver account whose name matches
\* the fragment is never returned as an elder reference, neither by the
\* exact step nor by the fuzzy step.
C27_ElderReferenceIsElder ==
    (Resolved /\ IsElder(response)) =>
        \E i \in 1..Len(users) :
            /\ users[i].id = response.id
            /\ users[i].user_type = "elder"

\* the attribute a birthday or profession query asks for, as stored in the
\* notes of the resolved family member's own record
StoredAttribute ==
    LET notes == ParsedNotes(MemberRow(Subject).notes)
    IN  IF request.intent = "birthday" THEN notes.birthday ELSE notes.profession

MaxConnectionMembers == 2

\* the store accesses the handler of a parsed question makes, in order, each
\* with the method that opens the connection and whether the work inside its
\* try block raises; an access that raises ends the call
Accesses(parsed) ==
    LET Access(call, outcome) == [call |-> call, raises |-> IsRaise(outcome)]
        Find(name) == Access("_find_person_by_name", _find_person_by_name(name))
        Fetch(person, relationship) ==
            Access("_get_family_members", _get_family_members(person.user_id, relationship))
        \* what the handler does with the person it resolved
        After(intent, person) ==
            IF IsRaise(person) \/ person.tag = "none" THEN <<>>
            ELSE CASE intent \in {"daughter_name", "son_name"} ->
                        IF person.type # "elder" THEN <<>>
                        ELSE <<Fetch(person, IF intent = "daughter_name"
                                             THEN Chars("daughter") ELSE Chars("son"))>>
                   [] intent = "birthday" ->
                        IF person.type = "elder"
                        THEN <<Access("_handle_birthday_query", ElderBirthday(person))>>
                        ELSE <<Fetch(person, None)>>
                   [] intent = "profession" ->
                        IF person.type = "family_member" THEN <<Fetch(person, None)>> ELSE <<>>
                   [] intent = "family_members" ->
                        IF person.type = "elder" THEN <<Fetch(person, None)>> ELSE <<>>
                   [] OTHER -> <<>>
    IN  CASE parsed.intent = "unknown" -> <<>>
          [] parsed.intent = "relationship" ->
                <<Find(parsed.entities[1]), Find(parsed.entities[2])>>
          [] OTHER ->
                <<Find(parsed.entities[1])>>
                \o After(parsed.intent, _find_person_by_name(parsed.entities[1]))

InitConnections ==
    /\ users = AnswerUsers
    /\ family_members \in
          (LET pool == {<<Chars("Meeta"), Chars("daughter"), NotesFull>>,
                        <<Chars("Rita"), Chars("daughter"), NotesPlain>>,
                        <<Chars("Ravi"), Chars("son"), None>>}
           IN  UNION {{[i \in 1..n |->
                          Row(i, pick[i][1], pick[i][2][1], pick[i][2][2], None, pick[i][2][3])] :
                          pick \in [1..n -> (1..Len(AnswerUsers)) \X pool]} :
                      n \in 0..MaxConnectionMembers})
    /\ db_state = "up"
    /\ family_data = _load_family_data(family_members)
    /\ request = Idle
    /\ response = NoResponse

\* query(question) is entered: no connection is open, none was opened yet
Call(question) ==
    /\ request = Idle
    /\ request' = [op |-> "query", question |-> question, pc |-> "handler",
                   todo |-> Accesses(_parse_query(question)),
                   open |-> 0, opened |-> 0, raised |-> FALSE]
    /\ UNCHANGED <<users, family_members, db_state, family_data, response>>

\* conn = self._get_connection(): sqlite3.connect raises, and leaves no
\* connection, when the store cannot be opened
Connect ==
    /\ request # Idle
    /\ request.pc = "handler" /\ ~request.raised /\ request.todo # <<>>
    /\ request' = IF db_state = "up"
                  THEN [request EXCEPT !.pc = "try", !.open = @ + 1, !.opened = @ + 1]
                  ELSE [request EXCEPT !.raised = TRUE]
    /\ UNCHANGED <<users, family_members, db_state, family_data, response>>

\* the try block: the SELECTs and the work on their rows
Execute ==
    /\ request # Idle
    /\ request.pc = "try"
    /\ request' = [request EXCEPT !.pc = "finally", !.raised = Head(request.todo).raises]
    /\ UNCHANGED <<users, family_members, db_state, family_data, response>>

\* a close written at the end of the try block: skipped when the block raises
CloseAfterWork ==
    /\ request # Idle
    /\ request.pc = "finally"
    /\ request' = [request EXCEPT !.pc = "handler", !.todo = Tail(@),
                                  !.open = IF request.raised THEN @ ELSE @ - 1]
    /\ UNCHANGED <<users, family_members, db_state, family_data, response>>

\* finally: conn.close(), then the return or the raise of the try block
Close ==
    /\ request # Idle
    /\ request.pc = "finally"
    /\ request' = [request EXCEPT !.pc = "handler", !.todo = Tail(@), !.open = @ - 1]
    /\ UNCHANGED <<users, family_members, db_state, family_data, response>>

\* query returns the handler's dict, or the error dict of its except clause
ReturnResult ==
    /\ request # Idle
    /\ request.pc = "handler" /\ (request.raised \/ request.todo = <<>>)
    /\ request' = [request EXCEPT !.pc = "returned"]
    /\ response' = query(request.question)
    /\ UNCHANGED <<users, family_members, db_state, family_data>>

NextConnections ==
    \/ \E question \in {Chars("Who is Anna's daughter?"),
                        Chars("When is Anna's birthday?"),
                        Chars("When is Rita's birthday?"),
                        Chars("What is Meeta's job?"),
                        Chars("Who are Bob's family?"),
                        Chars("How is Meeta related to Anna"),
                        Chars("When is Zubin's birthday?"),
                        Chars("hello there")} : Call(question)
    \/ Connect
    \/ Execute
    \/ Close
    \/ ReturnResult
    \/ request # Idle /\ request.pc = "returned" /\ Complete
    \/ \E state \in {"up", "connect_fails"} : StoreFault(state)

SpecConnections == InitConnections /\ [][NextConnections]_vars

\* an engine call is under way or has just returned
Calling == request # Idle /\ request.op = "query"

\* C29: store connections are per-call and never leak: every connection the
\* generic engine opens while resolving a person, fetching family members
\* or reading a date of birth is closed by the time that method returns or
\* raises, so at most one connection is open at a time and none is open
\* once query() has returned.
C29_ConnectionsClosed ==
    Calling =>
        /\ request.open \in 0..1
        /\ request.pc \in {"handler", "returned"} => request.open = 0

\* C29 witness: query has returned the error dict of a call whose second
\* access raised inside its try block, with the connection open
C29_Witness_RaisedWhileConnected ==
    /\ Calling
    /\ request.pc = "returned"
    /\ request.raised
    /\ request.opened = 2
    /\ db_state = "up"
    /\ "error" \in response.keys
    /\ request.open = 0

\* the answer to the same question with its two names exchanged
Swapped == Guarded(_handle_relationship_query(request.entities[2], request.entities[1]))

\* C30: the relationship handler is symmetric in its two names: whatever the
\* store and the two fragments, the call with person1 and person2 exchanged
\* has the same success value and, when it succeeds, the same answer (the
\* family member's relationship label).
C30_RelationshipSymmetric ==
    Handled({"relationship"}) =>
        /\ Swapped.success = response.success
        /\ response.success => Swapped.answer = response.answer

\* C30 witness: the family member was named first and the elder second, and
\* the question was answered with the member's relationship label
C30_Witness_MemberNamedFirst ==
    /\ Handled({"relationship"})
    /\ IsMember(Subject)
    /\ IsElder(Other)
    /\ response.success
    /\ response.answer = TextAnswer(MemberRow(Subject).relationship_type)
    /\ Swapped.success

\* C21: entity resolution is deterministic in the store contents: when
\* several records match the same fragment (two family members under
\* different elders whose names both contain it), resolving the fragment
\* returns the same person whatever the order in which the store returns
\* the matching rows.
C21_SamePersonInAnyRowOrder ==
    Resolved /\ FetchoneOutcomes(request.name) # {} =>
        FetchoneOutcomes(request.name) = {response}

====
